---------------------------- MODULE Spec2Model ----------------------------
(***************************************************************************)
(* Model of hack/update-capi-templates-to-beta2.py: the recursive          *)
(* transformation of a parsed YAML document tree (transform and its        *)
(* helpers convert_mapping_to_seq, duration_to_seconds,                    *)
(* transform_machine_health_check and infer_api_group).                    *)
(*                                                                         *)
(* A document node is a record [t, s, n, e]:                               *)
(*   t = "map"  : CommentedMap, e = the ordered sequence of [k, v] entries *)
(*   t = "seq"  : CommentedSeq, e = the sequence of element nodes          *)
(*   t = "str"  : Python str, s = its characters                           *)
(*   t = "int"  : Python int, n = its value                                *)
(*   t = "bool" : Python bool, n = 1 for True, 0 for False                 *)
(*   t = "null" : Python None (a YAML null, and what dict.get returns for  *)
(*                a missing key)                                           *)
(* Strings, mapping keys included, are sequences of one-character strings, *)
(* so that strip, fullmatch, split, "in" and endswith are computed on the   *)
(* characters as the Python code computes them.                            *)
(***************************************************************************)
EXTENDS Integers, Sequences, FiniteSets, TLC

VARIABLES
    doc,       \* the document tree the caller holds (mutated in place by transform)
    prev,      \* the tree as it was before the last call of transform
    changed,   \* the value the last call of transform returned
    raised,    \* TRUE when the last call raised TypeError
    calls,     \* how many times transform was called on doc
    ref,       \* the reference block handed to infer_api_group
    inferred,  \* what infer_api_group returned: [ok, g]
    ipc,       \* "arg" before infer_api_group was called, "ret" after
    dur_arg,   \* the string handed to duration_to_seconds
    dur_ret,   \* what duration_to_seconds returned (NoSeconds for None)
    dpc,       \* "arg" before duration_to_seconds was called, "ret" after
    is_file,        \* args.yaml_file.is_file()
    disk,           \* the file at the path: [text, docs, parses]
    disk0,          \* the file as it was when the script started
    original_text,  \* process_file's original_text
    updated_text,   \* process_file's updated_text, the text handed to the parser
    docs,           \* process_file's docs
    any_changed,    \* process_file's any_changed
    next_doc,       \* the index in docs the for loop is at
    opened,         \* how many times the file was opened for writing
    printed,        \* the lines main printed: "Updated" / "No changes needed"
    exit_code,      \* the exit status of the script, once fpc = "exit"
    fpc             \* where main / process_file is

walkVars == <<doc, prev, changed, raised, calls>>

inferVars == <<ref, inferred, ipc>>

durVars == <<dur_arg, dur_ret, dpc>>

fileVars ==
    <<is_file, disk, disk0, original_text, updated_text, docs, any_changed, next_doc,
      opened, printed, exit_code, fpc>>

vars == <<walkVars, inferVars, durVars, fileVars>>

(***************************************************************************)
(* String literals of the source, as character sequences.                  *)
(***************************************************************************)
s_kubeletExtraArgs ==
    <<"k", "u", "b", "e", "l", "e", "t", "E", "x", "t", "r", "a", "A", "r", "g", "s">>

s_extraArgs ==
    <<"e", "x", "t", "r", "a", "A", "r", "g", "s">>

s_infrastructureRef ==
    <<"i", "n", "f", "r", "a", "s", "t", "r", "u", "c", "t", "u", "r", "e", "R", "e", "f">>

s_controlPlaneRef ==
    <<"c", "o", "n", "t", "r", "o", "l", "P", "l", "a", "n", "e", "R", "e", "f">>

s_configRef ==
    <<"c", "o", "n", "f", "i", "g", "R", "e", "f">>

s_controlPlaneEndpoint ==
    <<"c", "o", "n", "t", "r", "o", "l", "P", "l", "a", "n", "e", "E", "n", "d", "p", "o", "i", "n", "t">>

s_host ==
    <<"h", "o", "s", "t">>

s_kind ==
    <<"k", "i", "n", "d">>

s_spec ==
    <<"s", "p", "e", "c">>

s_apiVersion ==
    <<"a", "p", "i", "V", "e", "r", "s", "i", "o", "n">>

s_apiGroup ==
    <<"a", "p", "i", "G", "r", "o", "u", "p">>

s_name ==
    <<"n", "a", "m", "e">>

s_value ==
    <<"v", "a", "l", "u", "e">>

s_MachineHealthCheck ==
    <<"M", "a", "c", "h", "i", "n", "e", "H", "e", "a", "l", "t", "h", "C", "h", "e", "c", "k">>

s_KubeadmControlPlane ==
    <<"K", "u", "b", "e", "a", "d", "m", "C", "o", "n", "t", "r", "o", "l", "P", "l", "a", "n", "e">>

s_KubeadmControlPlaneTemplate ==
    <<"K", "u", "b", "e", "a", "d", "m", "C", "o", "n", "t", "r", "o", "l", "P", "l", "a", "n", "e", "T", "e", "m", "p", "l", "a", "t", "e">>

s_KubeadmConfig ==
    <<"K", "u", "b", "e", "a", "d", "m", "C", "o", "n", "f", "i", "g">>

s_KubeadmConfigTemplate ==
    <<"K", "u", "b", "e", "a", "d", "m", "C", "o", "n", "f", "i", "g", "T", "e", "m", "p", "l", "a", "t", "e">>

s_KubeadmConfigTemplateList ==
    <<"K", "u", "b", "e", "a", "d", "m", "C", "o", "n", "f", "i", "g", "T", "e", "m", "p", "l", "a", "t", "e", "L", "i", "s", "t">>

s_HCloud ==
    <<"H", "C", "l", "o", "u", "d">>

s_Hetzner ==
    <<"H", "e", "t", "z", "n", "e", "r">>

s_BareMetal ==
    <<"B", "a", "r", "e", "M", "e", "t", "a", "l">>

s_BM ==
    <<"B", "M">>

s_Cluster ==
    <<"C", "l", "u", "s", "t", "e", "r">>

s_MachineTemplate ==
    <<"M", "a", "c", "h", "i", "n", "e", "T", "e", "m", "p", "l", "a", "t", "e">>

s_checks ==
    <<"c", "h", "e", "c", "k", "s">>

s_nodeStartupTimeout ==
    <<"n", "o", "d", "e", "S", "t", "a", "r", "t", "u", "p", "T", "i", "m", "e", "o", "u", "t">>

s_nodeStartupTimeoutSeconds ==
    <<"n", "o", "d", "e", "S", "t", "a", "r", "t", "u", "p", "T", "i", "m", "e", "o", "u", "t", "S", "e", "c", "o", "n", "d", "s">>

s_unhealthyConditions ==
    <<"u", "n", "h", "e", "a", "l", "t", "h", "y", "C", "o", "n", "d", "i", "t", "i", "o", "n", "s">>

s_unhealthyNodeConditions ==
    <<"u", "n", "h", "e", "a", "l", "t", "h", "y", "N", "o", "d", "e", "C", "o", "n", "d", "i", "t", "i", "o", "n", "s">>

s_type ==
    <<"t", "y", "p", "e">>

s_status ==
    <<"s", "t", "a", "t", "u", "s">>

s_timeout ==
    <<"t", "i", "m", "e", "o", "u", "t">>

s_timeoutSeconds ==
    <<"t", "i", "m", "e", "o", "u", "t", "S", "e", "c", "o", "n", "d", "s">>

s_maxUnhealthy ==
    <<"m", "a", "x", "U", "n", "h", "e", "a", "l", "t", "h", "y">>

s_remediation ==
    <<"r", "e", "m", "e", "d", "i", "a", "t", "i", "o", "n">>

s_triggerIf ==
    <<"t", "r", "i", "g", "g", "e", "r", "I", "f">>

s_unhealthyLessThanOrEqualTo ==
    <<"u", "n", "h", "e", "a", "l", "t", "h", "y", "L", "e", "s", "s", "T", "h", "a", "n", "O", "r", "E", "q", "u", "a", "l", "T", "o">>

s_remediationTemplate ==
    <<"r", "e", "m", "e", "d", "i", "a", "t", "i", "o", "n", "T", "e", "m", "p", "l", "a", "t", "e">>

s_templateRef ==
    <<"t", "e", "m", "p", "l", "a", "t", "e", "R", "e", "f">>

s_machineTemplate ==
    <<"m", "a", "c", "h", "i", "n", "e", "T", "e", "m", "p", "l", "a", "t", "e">>

s_None ==
    <<"N", "o", "n", "e">>

s_True ==
    <<"T", "r", "u", "e">>

s_False ==
    <<"F", "a", "l", "s", "e">>

s_legacy ==
    <<"c", "l", "u", "s", "t", "e", "r", ".", "x", "-", "k", "8", "s", ".", "i", "o", "/", "v", "1", "b", "e", "t", "a", "1">>

s_successor ==
    <<"c", "l", "u", "s", "t", "e", "r", ".", "x", "-", "k", "8", "s", ".", "i", "o", "/", "v", "1", "b", "e", "t", "a", "2">>

g_controlplane ==
    <<"c", "o", "n", "t", "r", "o", "l", "p", "l", "a", "n", "e", ".", "c", "l", "u", "s", "t", "e", "r", ".", "x", "-", "k", "8", "s", ".", "i", "o">>

g_bootstrap ==
    <<"b", "o", "o", "t", "s", "t", "r", "a", "p", ".", "c", "l", "u", "s", "t", "e", "r", ".", "x", "-", "k", "8", "s", ".", "i", "o">>

g_infrastructure ==
    <<"i", "n", "f", "r", "a", "s", "t", "r", "u", "c", "t", "u", "r", "e", ".", "c", "l", "u", "s", "t", "e", "r", ".", "x", "-", "k", "8", "s", ".", "i", "o">>

(***************************************************************************)
(* The document model (ruamel.yaml's CommentedMap / CommentedSeq / scalars).*)
(***************************************************************************)
Null == [t |-> "null", s |-> <<>>, n |-> 0, e |-> <<>>]

StrV(cs) == [t |-> "str", s |-> cs, n |-> 0, e |-> <<>>]

IntV(i) == [t |-> "int", s |-> <<>>, n |-> i, e |-> <<>>]

BoolV(b) == [t |-> "bool", s |-> <<>>, n |-> IF b THEN 1 ELSE 0, e |-> <<>>]

MapV(entries) == [t |-> "map", s |-> <<>>, n |-> 0, e |-> entries]

SeqV(items) == [t |-> "seq", s |-> <<>>, n |-> 0, e |-> items]

KV(key, val) == [k |-> key, v |-> val]

EmptyMap == MapV(<<>>)

\* isinstance(x, CommentedMap)
IsMap(x) == x.t = "map"

\* isinstance(x, CommentedSeq) / isinstance(x, list)
IsSeq(x) == x.t = "seq"

\* isinstance(x, str)
IsStr(x) == x.t = "str"

\* key in m
Has(m, key) == \E i \in 1..Len(m.e) : m.e[i].k = key

KeyIndex(m, key) == CHOOSE i \in 1..Len(m.e) : m.e[i].k = key

\* m.get(key): the value, None when the key is missing
Get(m, key) == IF Has(m, key) THEN m.e[KeyIndex(m, key)].v ELSE Null

\* m[key] = val: an existing key keeps its position, a new key goes last
Set(m, key, val) ==
    IF Has(m, key)
    THEN [m EXCEPT !.e[KeyIndex(m, key)] = KV(key, val)]
    ELSE [m EXCEPT !.e = Append(@, KV(key, val))]

\* del m[key] / m.pop(key)
Del(m, key) == [m EXCEPT !.e = SelectSeq(@, LAMBDA x : x.k # key)]

\* bool(x) of a CommentedMap or CommentedSeq: non-empty
Truthy(x) == Len(x.e) > 0

(***************************************************************************)
(* Python string operations on character sequences.                        *)
(***************************************************************************)
Whitespace == {" ", "\t", "\n", "\r"}

RECURSIVE lstrip(_)
lstrip(cs) ==
    IF cs # <<>> /\ Head(cs) \in Whitespace THEN lstrip(Tail(cs)) ELSE cs

RECURSIVE rstrip(_)
rstrip(cs) ==
    IF cs # <<>> /\ cs[Len(cs)] \in Whitespace
    THEN rstrip(SubSeq(cs, 1, Len(cs) - 1))
    ELSE cs

\* str.strip()
strip(cs) == rstrip(lstrip(cs))

\* c in cs, for a single character c
HasChar(cs, c) == \E i \in 1..Len(cs) : cs[i] = c

\* sub in cs
HasSub(cs, sub) ==
    \E i \in 1..(Len(cs) - Len(sub) + 1) : SubSeq(cs, i, i + Len(sub) - 1) = sub

\* cs.endswith(suffix)
EndsWith(cs, suffix) ==
    /\ Len(cs) >= Len(suffix)
    /\ SubSeq(cs, Len(cs) - Len(suffix) + 1, Len(cs)) = suffix

\* cs.rsplit(c, 1)[0]: what precedes the last c
mut_before_last(cs, c) ==
    LET i == CHOOSE j \in 1..Len(cs) : cs[j] = c /\ \A h \in (j + 1)..Len(cs) : cs[h] # c
    IN  SubSeq(cs, 1, i - 1)

\* cs.split(c, 1)[0]: what precedes the first c
BeforeFirst(cs, c) ==
    LET i == CHOOSE j \in 1..Len(cs) : cs[j] = c /\ \A h \in 1..(j - 1) : cs[h] # c
    IN  SubSeq(cs, 1, i - 1)

Digits == {"0", "1", "2", "3", "4", "5", "6", "7", "8", "9"}

DigitVal(c) ==
    CASE c = "0" -> 0 [] c = "1" -> 1 [] c = "2" -> 2 [] c = "3" -> 3
      [] c = "4" -> 4 [] c = "5" -> 5 [] c = "6" -> 6 [] c = "7" -> 7
      [] c = "8" -> 8 [] c = "9" -> 9

\* int(cs) of a non-empty run of decimal digits
RECURSIVE ParseInt(_)
ParseInt(cs) ==
    IF cs = <<>> THEN 0
    ELSE 10 * ParseInt(SubSeq(cs, 1, Len(cs) - 1)) + DigitVal(cs[Len(cs)])

\* str(int) for n >= 0
RECURSIVE IntStr(_)
IntStr(i) ==
    LET d == CHOOSE c \in Digits : DigitVal(c) = i % 10
    IN  IF i < 10 THEN <<d>> ELSE Append(IntStr(i \div 10), d)

\* str(x): the text cpe.get("host", "") is turned into.  The repr of a
\* CommentedMap / CommentedSeq is abstracted to its brackets; like the real
\* repr it is never empty and never whitespace.
PyStr(x) ==
    CASE x.t = "str" -> x.s
      [] x.t = "null" -> s_None
      [] x.t = "bool" -> IF x.n = 1 THEN s_True ELSE s_False
      [] x.t = "int" -> IF x.n < 0 THEN <<"-">> \o IntStr(0 - x.n) ELSE IntStr(x.n)
      [] x.t = "map" -> <<"{", "}">>
      [] x.t = "seq" -> <<"[", "]">>

(***************************************************************************)
(* convert_mapping_to_seq                                                  *)
(***************************************************************************)
\* the entries in reverse order
mut_convert_reversed(mapping) ==
    SeqV([i \in 1..Len(mapping.e) |->
            MapV(<<KV(s_name, StrV(mapping.e[Len(mapping.e) + 1 - i].k)),
                   KV(s_value, mapping.e[Len(mapping.e) + 1 - i].v)>>)])

convert_mapping_to_seq(mapping) ==
    SeqV([i \in 1..Len(mapping.e) |->
            MapV(<<KV(s_name, StrV(mapping.e[i].k)), KV(s_value, mapping.e[i].v)>>)])

(***************************************************************************)
(* duration_to_seconds                                                     *)
(***************************************************************************)
UnitChars == {"s", "m", "h", "d", "S", "M", "H", "D"}

\* leaves the case of the unit as it is
mut_lower_identity(c) == c

\* str.lower() on a unit character
Lower(c) ==
    CASE c = "S" -> "s" [] c = "M" -> "m" [] c = "H" -> "h" [] c = "D" -> "d"
      [] OTHER -> c

\* the groups of a match: [ok, digits, unit]
match_groups(digits, unit) ==
    [ok |-> digits # <<>> /\ \A i \in 1..Len(digits) : digits[i] \in Digits,
     digits |-> digits,
     unit |-> unit]

\* re.fullmatch(r"(\d+)([smhdSMHD]?)", cs)
DurationMatch(cs) ==
    IF cs # <<>> /\ cs[Len(cs)] \in UnitChars
    THEN match_groups(SubSeq(cs, 1, Len(cs) - 1), cs[Len(cs)])
    ELSE match_groups(cs, "")

\* None is modelled as NoSeconds; every real result is >= 0
NoSeconds == -1

\* lines 70-76
scale(value, unit) ==
    IF unit = "m" THEN value * 60
    ELSE IF unit = "h" THEN value * 60 * 60
    ELSE IF unit = "d" THEN value * 60 * 60 * 24
    ELSE value

\* lines 66-76
seconds_of(match) ==
    IF ~match.ok THEN NoSeconds
    ELSE scale(ParseInt(match.digits), Lower(match.unit))

duration_to_seconds(duration) == seconds_of(DurationMatch(strip(duration)))

(***************************************************************************)
(* transform_machine_health_check.  The sub-moves work on the record       *)
(* st = [spec, checks, c]: the spec mapping, the checks mapping (the       *)
(* object stored under spec["checks"] at line 129) and the changed flag.   *)
(* Values a step reads more than once are passed as operator arguments.    *)
(***************************************************************************)
\* x = m.get(key); if not isinstance(x, CommentedMap): x = CommentedMap()
MapOrNew(x) == IF IsMap(x) THEN x ELSE EmptyMap

\* checks[key] = val; changed = True
set_check(st, key, val) == [st EXCEPT !.checks = Set(@, key, val), !.c = TRUE]

\* lines 95-97: if seconds is not None
store_startup_seconds(st, seconds) ==
    IF seconds # NoSeconds
    THEN set_check(st, s_nodeStartupTimeoutSeconds, IntV(seconds))
    ELSE st

\* lines 93-100, st.spec being the spec after the pop
store_startup_timeout(st, timeout_val) ==
    IF IsStr(timeout_val)
    THEN store_startup_seconds(st, duration_to_seconds(timeout_val.s))
    ELSE set_check(st, s_nodeStartupTimeoutSeconds, timeout_val)

\* reads the source value without removing it
mut_startup_timeout_kept(st) ==
    IF Has(st.spec, s_nodeStartupTimeout)
    THEN store_startup_timeout(st, Get(st.spec, s_nodeStartupTimeout))
    ELSE st

\* lines 91-100: nodeStartupTimeout -> checks.nodeStartupTimeoutSeconds
mhc_node_startup_timeout(st) ==
    IF Has(st.spec, s_nodeStartupTimeout)
    THEN store_startup_timeout([st EXCEPT !.spec = Del(@, s_nodeStartupTimeout)],
                               Get(st.spec, s_nodeStartupTimeout))
    ELSE st

\* lines 111-114: if key in cond: new_cond[key] = cond[key]
copy_key(new_cond, cond, key) ==
    IF Has(cond, key) THEN Set(new_cond, key, Get(cond, key)) ELSE new_cond

\* lines 118-119: if seconds is not None
with_seconds(new_cond, seconds) ==
    IF seconds # NoSeconds
    THEN Set(new_cond, s_timeoutSeconds, IntV(seconds))
    ELSE new_cond

\* lines 115-121: timeout -> timeoutSeconds
with_timeout(new_cond, timeout) ==
    IF IsStr(timeout) THEN with_seconds(new_cond, duration_to_seconds(timeout.s))
    ELSE IF timeout # Null THEN Set(new_cond, s_timeoutSeconds, timeout)
    ELSE new_cond

\* lines 110-121: one entry of unhealthyConditions rebuilt as new_cond
new_cond_of(cond) ==
    with_timeout(copy_key(copy_key(EmptyMap, cond, s_type), cond, s_status),
                 Get(cond, s_timeout))

\* appends new_cond whether or not it is empty
mut_keep_empty(new_cond, rest) == <<new_cond>> \o rest

\* lines 122-123: if new_cond: new_conditions.append(new_cond)
keep_cond(new_cond, rest) == IF Truthy(new_cond) THEN <<new_cond>> \o rest ELSE rest

\* lines 106-123: the loop building new_conditions
RECURSIVE new_conditions_of(_)
new_conditions_of(conds) ==
    IF conds = <<>> THEN <<>>
    ELSE IF ~IsMap(Head(conds)) THEN new_conditions_of(Tail(conds))
    ELSE keep_cond(new_cond_of(Head(conds)), new_conditions_of(Tail(conds)))

\* lines 124-126: if new_conditions
store_new_conditions(st, new_conditions) ==
    IF Truthy(new_conditions)
    THEN set_check(st, s_unhealthyNodeConditions, new_conditions)
    ELSE st

\* lines 105-126, st.spec being the spec after the pop
store_conditions(st, conditions) ==
    IF IsSeq(conditions)
    THEN store_new_conditions(st, SeqV(new_conditions_of(conditions.e)))
    ELSE st

\* lines 103-126: unhealthyConditions -> checks.unhealthyNodeConditions
mhc_unhealthy_conditions(st) ==
    IF Has(st.spec, s_unhealthyConditions)
    THEN store_conditions([st EXCEPT !.spec = Del(@, s_unhealthyConditions)],
                          Get(st.spec, s_unhealthyConditions))
    ELSE st

\* lines 128-129: if checks: spec["checks"] = checks
mhc_store_checks(st) ==
    IF Truthy(st.checks)
    THEN [st EXCEPT !.spec = Set(@, s_checks, st.checks)]
    ELSE st

\* stores max_unhealthy whether or not the target is set
mut_set_trigger_always(st, max_unhealthy, remediation, trigger_if) ==
    [st EXCEPT
        !.spec = Set(@, s_remediation,
                     Set(remediation, s_triggerIf,
                         Set(trigger_if, s_unhealthyLessThanOrEqualTo, max_unhealthy))),
        !.c = TRUE]

\* lines 140-144
set_trigger(st, max_unhealthy, remediation, trigger_if) ==
    IF ~Has(trigger_if, s_unhealthyLessThanOrEqualTo)
    THEN [st EXCEPT
            !.spec = Set(@, s_remediation,
                         Set(remediation, s_triggerIf,
                             Set(trigger_if, s_unhealthyLessThanOrEqualTo,
                                 max_unhealthy))),
            !.c = TRUE]
    ELSE [st EXCEPT
            !.spec = Set(@, s_remediation, Set(remediation, s_triggerIf, trigger_if))]

\* lines 137-144
move_max_unhealthy(st, max_unhealthy, remediation) ==
    set_trigger(st, max_unhealthy, remediation, MapOrNew(Get(remediation, s_triggerIf)))

\* lines 132-144: maxUnhealthy -> remediation.triggerIf.unhealthyLessThanOrEqualTo
mhc_max_unhealthy(st) ==
    IF Has(st.spec, s_maxUnhealthy)
    THEN move_max_unhealthy([st EXCEPT !.spec = Del(@, s_maxUnhealthy)],
                            Get(st.spec, s_maxUnhealthy),
                            MapOrNew(Get(Del(st.spec, s_maxUnhealthy), s_remediation)))
    ELSE st

\* lines 156-158: for key in ("kind", "name", "apiVersion")
TemplateRefKeys == <<s_kind, s_name, s_apiVersion>>

\* copies every key of the three that templ has, set at the destination or not
RECURSIVE mut_merge_overwrite(_, _, _)
mut_merge_overwrite(templ_ref, templ, i) ==
    IF i > Len(TemplateRefKeys) THEN templ_ref
    ELSE mut_merge_overwrite(
             IF Has(templ, TemplateRefKeys[i])
             THEN Set(templ_ref, TemplateRefKeys[i], Get(templ, TemplateRefKeys[i]))
             ELSE templ_ref,
             templ, i + 1)

RECURSIVE merge_template_ref(_, _, _)
merge_template_ref(templ_ref, templ, i) ==
    IF i > Len(TemplateRefKeys) THEN templ_ref
    ELSE merge_template_ref(
             IF Has(templ, TemplateRefKeys[i]) /\ ~Has(templ_ref, TemplateRefKeys[i])
             THEN Set(templ_ref, TemplateRefKeys[i], Get(templ, TemplateRefKeys[i]))
             ELSE templ_ref,
             templ, i + 1)

\* lines 153-161
merge_template(st, templ, remediation) ==
    [st EXCEPT
        !.spec = Set(@, s_remediation,
                     Set(remediation, s_templateRef,
                         merge_template_ref(MapOrNew(Get(remediation, s_templateRef)),
                                            templ, 1))),
        !.c = TRUE]

\* lines 149-161, st.spec being the spec after the pop
move_template(st, templ) ==
    IF IsMap(templ)
    THEN merge_template(st, templ, MapOrNew(Get(st.spec, s_remediation)))
    ELSE st

\* lines 147-161: remediationTemplate -> remediation.templateRef
mhc_remediation_template(st) ==
    IF Has(st.spec, s_remediationTemplate)
    THEN move_template([st EXCEPT !.spec = Del(@, s_remediationTemplate)],
                       Get(st.spec, s_remediationTemplate))
    ELSE st

\* lines 86-161: the four sub-moves, in the order of the code
mhc_moves(spec) ==
    mhc_remediation_template(
        mhc_max_unhealthy(
            mhc_store_checks(
                mhc_unhealthy_conditions(
                    mhc_node_startup_timeout(
                        [spec |-> spec,
                         checks |-> MapOrNew(Get(spec, s_checks)),
                         c |-> FALSE])))))

\* the mapping mhc with its spec as the sub-moves left it, and the flag
mhc_result(mhc, st) == [n |-> Set(mhc, s_spec, st.spec), c |-> st.c]

\* The result is [n, c]: mhc after the in-place updates, and the returned flag
transform_machine_health_check(mhc) ==
    IF ~IsMap(Get(mhc, s_spec)) THEN [n |-> mhc, c |-> FALSE]
    ELSE mhc_result(mhc, mhc_moves(Get(mhc, s_spec)))

(***************************************************************************)
(* infer_api_group.  The result is [ok, g]: ok = FALSE models None; a      *)
(* returned string is [ok |-> TRUE, g |-> its characters] (g may be empty).*)
(***************************************************************************)
NoGroup == [ok |-> FALSE, g |-> <<>>]

Group(cs) == [ok |-> TRUE, g |-> cs]

explicit_kind_map ==
    MapV(<<KV(s_KubeadmControlPlane, g_controlplane),
           KV(s_KubeadmControlPlaneTemplate, g_controlplane),
           KV(s_KubeadmConfig, g_bootstrap),
           KV(s_KubeadmConfigTemplate, g_bootstrap),
           KV(s_KubeadmConfigTemplateList, g_bootstrap)>>)

infra_hints == {s_HCloud, s_Hetzner, s_BareMetal, s_BM}

\* lines 172-195: the kind heuristics
infer_from_kind(kind) ==
    IF ~IsStr(kind) THEN NoGroup
    ELSE IF Has(explicit_kind_map, kind.s) THEN Group(Get(explicit_kind_map, kind.s))
    ELSE IF \/ \E hint \in infra_hints : HasSub(kind.s, hint)
            \/ EndsWith(kind.s, s_Cluster)
            \/ EndsWith(kind.s, s_MachineTemplate)
         THEN Group(g_infrastructure)
    ELSE NoGroup

\* lines 168-172
infer_from(api_version, kind) ==
    IF IsStr(api_version) /\ HasChar(api_version.s, "/")
    THEN Group(BeforeFirst(api_version.s, "/"))
    ELSE infer_from_kind(kind)

infer_api_group(r) == infer_from(Get(r, s_apiVersion), Get(r, s_kind))

(***************************************************************************)
(* transform.  A call's outcome is [n, c, err]: the node after the         *)
(* in-place updates, the returned changed flag, and err = TRUE when the    *)
(* call raised TypeError (n is then the tree as mutated up to the raise).  *)
(***************************************************************************)
\* lines 211-219
convert_kubelet_extra_args(st, args_val) ==
    IF IsMap(args_val)
    THEN [st EXCEPT !.n = Set(@, s_kubeletExtraArgs, convert_mapping_to_seq(args_val)),
                    !.c = TRUE]
    ELSE IF IsSeq(args_val) THEN st
    ELSE [st EXCEPT !.err = TRUE]

\* lines 210-219: kubeletExtraArgs, the strict rule
rule_kubelet_extra_args(st) ==
    IF Has(st.n, s_kubeletExtraArgs)
    THEN convert_kubelet_extra_args(st, Get(st.n, s_kubeletExtraArgs))
    ELSE st

\* lines 221-223: extraArgs
rule_extra_args(st) ==
    IF Has(st.n, s_extraArgs) /\ IsMap(Get(st.n, s_extraArgs))
    THEN [st EXCEPT !.n = Set(@, s_extraArgs,
                              convert_mapping_to_seq(Get(st.n, s_extraArgs))),
                    !.c = TRUE]
    ELSE st

\* node[ref_key] as the rule left it, and the flag
store_ref(st, ref_key, ref_val, touched) ==
    [st EXCEPT !.n = Set(@, ref_key, ref_val), !.c = @ \/ touched]

\* lines 234-236: if "apiVersion" in ref_val
drop_api_version(st, ref_key, ref_val, touched) ==
    IF Has(ref_val, s_apiVersion)
    THEN store_ref(st, ref_key, Del(ref_val, s_apiVersion), TRUE)
    ELSE store_ref(st, ref_key, ref_val, touched)

\* lines 231-233: if inferred
set_api_group(st, ref_key, ref_val, guess) ==
    IF guess.ok /\ guess.g # <<>>
    THEN drop_api_version(st, ref_key, Set(ref_val, s_apiGroup, StrV(guess.g)), TRUE)
    ELSE drop_api_version(st, ref_key, ref_val, FALSE)

\* infers and sets apiGroup whether or not the block has one
mut_normalize_overwrite(st, ref_key, ref_val) ==
    IF ~IsMap(ref_val) THEN st
    ELSE set_api_group(st, ref_key, ref_val, infer_api_group(ref_val))

\* lines 228-236
normalize_ref_val(st, ref_key, ref_val) ==
    IF ~IsMap(ref_val) THEN st
    ELSE IF ~Has(ref_val, s_apiGroup)
         THEN set_api_group(st, ref_key, ref_val, infer_api_group(ref_val))
    ELSE drop_api_version(st, ref_key, ref_val, FALSE)

\* lines 226-236: one ref_key of the loop
normalize_ref(st, ref_key) ==
    IF Has(st.n, ref_key) THEN normalize_ref_val(st, ref_key, Get(st.n, ref_key)) ELSE st

\* line 225: for ref_key in ("infrastructureRef", "controlPlaneRef", "configRef")
rule_refs(st) ==
    normalize_ref(normalize_ref(normalize_ref(st, s_infrastructureRef),
                                s_controlPlaneRef),
                  s_configRef)

\* line 242: str(cpe.get("host", ""))
host_text(cpe) == IF Has(cpe, s_host) THEN PyStr(Get(cpe, s_host)) ELSE <<>>

\* compares the host text with "" without trimming it
mut_prune_untrimmed(st, cpe) ==
    IF IsMap(cpe) /\ host_text(cpe) = <<>>
    THEN [st EXCEPT !.n = Del(@, s_controlPlaneEndpoint), !.c = TRUE]
    ELSE st

\* lines 240-245
prune_endpoint(st, cpe) ==
    IF IsMap(cpe) /\ strip(host_text(cpe)) = <<>>
    THEN [st EXCEPT !.n = Del(@, s_controlPlaneEndpoint), !.c = TRUE]
    ELSE st

\* lines 238-245: controlPlaneEndpoint
rule_control_plane_endpoint(st) ==
    IF Has(st.n, s_controlPlaneEndpoint)
    THEN prune_endpoint(st, Get(st.n, s_controlPlaneEndpoint))
    ELSE st

\* lines 248-249: if transform_machine_health_check(node): changed = True
absorb_mhc(st, r) == [st EXCEPT !.n = r.n, !.c = @ \/ r.c]

\* lines 247-249: MachineHealthCheck
rule_machine_health_check(st) ==
    IF Get(st.n, s_kind) = StrV(s_MachineHealthCheck)
    THEN absorb_mhc(st, transform_machine_health_check(st.n))
    ELSE st

\* machineTemplate rebuilt around its spec, its other keys dropped
mut_store_only_spec(mt, mt_spec) ==
    IF Truthy(mt_spec) THEN MapV(<<KV(s_spec, mt_spec)>>) ELSE mt

\* lines 262-263: if mt_spec: mt["spec"] = mt_spec
store_mt_spec(mt, mt_spec) == IF Truthy(mt_spec) THEN Set(mt, s_spec, mt_spec) ELSE mt

\* moves the reference whether or not the destination exists
mut_relocate_overwrite(mt, mt_spec) ==
    IF Has(mt, s_infrastructureRef)
    THEN store_mt_spec(Del(mt, s_infrastructureRef),
                       Set(mt_spec, s_infrastructureRef, Get(mt, s_infrastructureRef)))
    ELSE store_mt_spec(mt, mt_spec)

\* lines 259-263: machineTemplate as the rule leaves it
relocate_ref(mt, mt_spec) ==
    IF Has(mt, s_infrastructureRef) /\ ~Has(mt_spec, s_infrastructureRef)
    THEN store_mt_spec(Del(mt, s_infrastructureRef),
                       Set(mt_spec, s_infrastructureRef, Get(mt, s_infrastructureRef)))
    ELSE store_mt_spec(mt, mt_spec)

\* lines 259-261: the move happens
relocates(mt, mt_spec) ==
    Has(mt, s_infrastructureRef) /\ ~Has(mt_spec, s_infrastructureRef)

\* lines 255-263
relocate_in_template(st, spec, mt) ==
    IF IsMap(mt)
    THEN [st EXCEPT
            !.n = Set(@, s_spec,
                      Set(spec, s_machineTemplate,
                          relocate_ref(mt, MapOrNew(Get(mt, s_spec))))),
            !.c = @ \/ relocates(mt, MapOrNew(Get(mt, s_spec)))]
    ELSE st

\* lines 252-263
relocate_in_spec(st, spec) ==
    IF IsMap(spec) THEN relocate_in_template(st, spec, Get(spec, s_machineTemplate))
    ELSE st

\* lines 251-263: KubeadmControlPlane
rule_kubeadm_control_plane(st) ==
    IF Get(st.n, s_kind) = StrV(s_KubeadmControlPlane)
    THEN relocate_in_spec(st, Get(st.n, s_spec))
    ELSE st

\* lines 221-263: the rules after the strict one, in the order of the code
later_rules(st) ==
    IF st.err THEN st
    ELSE rule_kubeadm_control_plane(
             rule_machine_health_check(
                 rule_control_plane_endpoint(
                     rule_refs(
                         rule_extra_args(st)))))

\* lines 210-263: all rules of one mapping node
apply_rules(node) ==
    later_rules(rule_kubelet_extra_args([n |-> node, c |-> FALSE, err |-> FALSE]))

\* changed = True for every value, whatever transform(value) returned
mut_absorb_always(st, i, r) ==
    [n |-> [st.n EXCEPT !.e[i].v = r.n], c |-> TRUE, err |-> r.err]

\* lines 266-267: if transform(value): changed = True
absorb_value(st, i, r) ==
    [n |-> [st.n EXCEPT !.e[i].v = r.n], c |-> st.c \/ r.c, err |-> r.err]

\* lines 271-272: if transform(item): changed = True
absorb_item(st, i, r) ==
    [n |-> [st.n EXCEPT !.e[i] = r.n], c |-> st.c \/ r.c, err |-> r.err]

RECURSIVE transform(_)
RECURSIVE transform_values(_, _)
RECURSIVE transform_items(_, _)

\* lines 265-267: for value in node.values(), from the i-th entry on
transform_values(st, i) ==
    IF st.err \/ i > Len(st.n.e) THEN st
    ELSE transform_values(absorb_value(st, i, transform(st.n.e[i].v)), i + 1)

\* lines 269-272: for item in node, from the i-th item on
transform_items(st, i) ==
    IF st.err \/ i > Len(st.n.e) THEN st
    ELSE transform_items(absorb_item(st, i, transform(st.n.e[i])), i + 1)

transform(node) ==
    IF IsMap(node) THEN transform_values(apply_rules(node), 1)
    ELSE IF IsSeq(node) THEN transform_items([n |-> node, c |-> FALSE, err |-> FALSE], 1)
    ELSE [n |-> node, c |-> FALSE, err |-> FALSE]

(***************************************************************************)
(* Input documents.  Every family below is a set of trees the YAML loader  *)
(* can produce; Docs puts each of them at the root, under a mapping key    *)
(* and inside a sequence, MaxDepth levels deep.                            *)
(***************************************************************************)
MaxArgs == 2

MaxDepth == 1

MaxCalls == 2

\* an optional mapping entry: absent, or key with one of the values
Opt(key, vals) == {<<>>} \cup {<<KV(key, v)>> : v \in vals}

in_a == <<"a">>

in_b == <<"b">>

in_c == <<"c">>

in_x == StrV(<<"x">>)

in_items == <<"i", "t", "e", "m", "s">>

in_template == <<"t", "e", "m", "p", "l", "a", "t", "e">>

in_metadata == <<"m", "e", "t", "a", "d", "a", "t", "a">>

\* the value kept under each argument name
ArgValue(key) ==
    CASE key = in_a -> StrV(<<"1">>)
      [] key = in_b -> StrV(<<"2">>)
      [] key = in_c -> IntV(3)

\* sequences of distinct argument names, at most MaxArgs long
ArgKeys == {in_a, in_b, in_c}

KeyOrders ==
    {ks \in UNION {[1..m -> ArgKeys] : m \in 0..MaxArgs} :
        \A i, j \in 1..Len(ks) : i # j => ks[i] # ks[j]}

ArgMaps ==
    {MapV([i \in 1..Len(ks) |-> KV(ks[i], ArgValue(ks[i]))]) : ks \in KeyOrders}

ArgItem(key) == MapV(<<KV(s_name, StrV(key)), KV(s_value, ArgValue(key))>>)

\* already in the list form
ArgSeqs == {SeqV(<<>>), SeqV(<<ArgItem(in_a)>>), SeqV(<<ArgItem(in_b), ArgItem(in_a)>>)}

\* argument mappings whose values or names are themselves subject to a rule
ArgNested ==
    {MapV(<<KV(in_a, MapV(<<KV(s_extraArgs, MapV(<<KV(in_b, ArgValue(in_b))>>))>>))>>),
     MapV(<<KV(s_extraArgs, MapV(<<KV(in_a, ArgValue(in_a))>>))>>)}

\* neither a Mapping nor a Sequence
ArgScalars == {Null, in_x, IntV(1)}

ArgVals == ArgMaps \cup ArgSeqs \cup ArgNested \cup ArgScalars

ArgFew ==
    {MapV(<<KV(in_b, ArgValue(in_b)), KV(in_a, ArgValue(in_a))>>),
     SeqV(<<ArgItem(in_a)>>), in_x}

ArgDocs ==
    {MapV(<<KV(s_name, in_x)>> \o k \o e) :
        k \in Opt(s_kubeletExtraArgs, ArgVals), e \in Opt(s_extraArgs, ArgFew)}
    \cup
    {MapV(e \o <<KV(s_name, in_x)>>) : e \in Opt(s_extraArgs, ArgVals)}

in_v1beta2 ==
    StrV(g_infrastructure \o <<"/", "v", "1", "b", "e", "t", "a", "2">>)

in_v1 == StrV(<<"v", "1">>)

in_slash_v1 == StrV(<<"/", "v", "1">>)

in_other_group == StrV(<<"o", "t", "h", "e", "r", ".", "i", "o">>)

in_HCloudCluster == StrV(s_HCloud \o s_Cluster)

in_HCloudMachineTemplate == StrV(s_HCloud \o s_MachineTemplate)

in_Pod == StrV(<<"P", "o", "d">>)

in_FooMachineTemplate == StrV(<<"F", "o", "o">> \o s_MachineTemplate)

RefApiVersions == {in_v1beta2, in_v1, in_slash_v1, IntV(1)}

RefKinds ==
    {in_HCloudCluster, StrV(s_KubeadmControlPlane), StrV(s_KubeadmConfigTemplate),
     in_FooMachineTemplate, in_Pod, IntV(7)}

\* reference blocks: apiVersion, kind, name and apiGroup, each optional but name
RefBlocks ==
    {MapV(av \o kd \o <<KV(s_name, in_x)>> \o ag) :
        av \in Opt(s_apiVersion, RefApiVersions),
        kd \in Opt(s_kind, RefKinds),
        ag \in Opt(s_apiGroup, {in_other_group})}

\* a block whose apiVersion has nothing before its '/'
r_slash == MapV(<<KV(s_apiVersion, in_slash_v1), KV(s_kind, in_HCloudCluster)>>)

\* a block from which no group can be inferred
r_pod == MapV(<<KV(s_kind, in_Pod), KV(s_apiVersion, in_v1)>>)

RefFew ==
    {MapV(<<KV(s_apiVersion, in_v1beta2), KV(s_kind, in_HCloudMachineTemplate),
            KV(s_name, in_x)>>),
     MapV(<<KV(s_kind, StrV(s_KubeadmControlPlane)), KV(s_name, in_x)>>),
     r_slash,
     MapV(<<KV(s_apiGroup, in_other_group), KV(s_kind, in_Pod),
            KV(s_apiVersion, in_v1beta2)>>),
     r_pod, in_x}

RefDocs ==
    {MapV(<<KV(s_infrastructureRef, r), KV(s_name, in_x)>>) : r \in RefBlocks}
    \cup
    {MapV(<<KV(s_name, in_x)>> \o cp \o cf \o ir) :
        cp \in Opt(s_controlPlaneRef, RefFew),
        cf \in Opt(s_configRef, RefFew),
        ir \in Opt(s_infrastructureRef, {Null, in_x})}

in_port == <<"p", "o", "r", "t">>

in_ip == StrV(<<"1", ".", "2", ".", "3", ".", "4">>)

CpeHosts ==
    {StrV(<<>>), StrV(<<" ", "\t">>), in_ip, StrV(<<" ", "1", " ">>),
     Null, IntV(0), BoolV(FALSE), EmptyMap, SeqV(<<>>)}

CpeVals ==
    {MapV(h \o <<KV(in_port, IntV(6443))>>) : h \in Opt(s_host, CpeHosts)}
    \cup {EmptyMap, in_x, Null, SeqV(<<>>)}

CpeDocs ==
    {MapV(<<KV(s_name, in_x)>> \o cpe \o <<KV(s_kind, in_HCloudCluster)>>) :
        cpe \in Opt(s_controlPlaneEndpoint, CpeVals)}

in_10m == StrV(<<"1", "0", "m">>)

in_300s == StrV(<<"3", "0", "0", "s">>)

in_soon == StrV(<<"s", "o", "o", "n">>)

in_Ready == StrV(<<"R", "e", "a", "d", "y">>)

in_Unknown == StrV(<<"U", "n", "k", "n", "o", "w", "n">>)

in_40pct == StrV(<<"4", "0", "%">>)

in_100pct == StrV(<<"1", "0", "0", "%">>)

\* durations the parser matches, durations it does not, and non-strings
TimeoutVals ==
    {in_10m, StrV(<<" ", "5", " ">>), StrV(<<"1", "H">>), StrV(<<"2", "d">>),
     in_soon, StrV(<<"1", ".", "5", "h">>), StrV(<<>>),
     IntV(300), Null, BoolV(TRUE)}

ChecksVals ==
    {MapV(<<KV(s_nodeStartupTimeoutSeconds, IntV(1))>>),
     MapV(<<KV(s_unhealthyNodeConditions, SeqV(<<>>))>>),
     MapV(<<KV(s_unhealthyNodeConditions, SeqV(<<MapV(<<KV(s_type, in_Ready)>>)>>))>>),
     MapV(<<KV(in_a, in_x), KV(s_nodeStartupTimeoutSeconds, IntV(1)), KV(in_b, in_x)>>),
     EmptyMap, in_x}

c_ready == MapV(<<KV(s_type, in_Ready), KV(s_status, in_Unknown), KV(s_timeout, in_300s)>>)

c_bad == MapV(<<KV(s_timeout, in_soon), KV(s_status, StrV(s_False)), KV(s_type, in_Ready)>>)

c_int == MapV(<<KV(s_type, in_Ready), KV(s_timeout, IntV(60))>>)

c_only_bad == MapV(<<KV(s_timeout, in_soon)>>)

c_null == MapV(<<KV(s_status, in_Unknown), KV(s_timeout, Null)>>)

ConditionVals ==
    {SeqV(<<>>), SeqV(<<c_ready>>), SeqV(<<c_ready, c_bad>>), SeqV(<<c_only_bad>>),
     SeqV(<<in_x, c_int>>), SeqV(<<c_only_bad, c_null, EmptyMap, c_ready>>),
     in_x, Null}

t_full ==
    MapV(<<KV(s_kind, in_HCloudMachineTemplate), KV(s_name, in_x),
           KV(s_apiVersion, in_v1beta2)>>)

t_part == MapV(<<KV(s_name, in_x), KV(in_a, in_x)>>)

TemplateVals == {t_full, t_part, EmptyMap, in_x}

trigger_set == MapV(<<KV(s_unhealthyLessThanOrEqualTo, in_100pct)>>)

RemediationVals ==
    {MapV(<<KV(s_triggerIf, trigger_set)>>),
     MapV(<<KV(s_templateRef, MapV(<<KV(s_kind, in_Pod)>>))>>),
     MapV(<<KV(s_templateRef, in_x), KV(s_triggerIf, in_x)>>),
     MapV(<<KV(s_triggerIf, MapV(<<KV(in_a, in_x)>>)),
            KV(s_templateRef, MapV(<<KV(s_name, in_x), KV(s_apiVersion, in_v1)>>))>>),
     MapV(<<KV(in_a, in_x), KV(s_triggerIf, trigger_set), KV(in_b, in_x)>>),
     EmptyMap, in_x}

\* specs whose moved values hold keys the rules look for
MhcDeep ==
    {MapV(<<KV(s_nodeStartupTimeout, MapV(<<KV(s_configRef, t_full)>>))>>),
     MapV(<<KV(s_maxUnhealthy,
               MapV(<<KV(s_kubeletExtraArgs, MapV(<<KV(in_a, ArgValue(in_a))>>))>>))>>),
     MapV(<<KV(s_remediationTemplate,
               MapV(<<KV(s_name, MapV(<<KV(s_infrastructureRef, t_full)>>))>>))>>),
     MapV(<<KV(s_unhealthyConditions,
               SeqV(<<MapV(<<KV(s_type,
                                MapV(<<KV(s_extraArgs,
                                          MapV(<<KV(in_a, ArgValue(in_a))>>))>>))>>)>>))>>)}

MhcSpecs ==
    {MapV(<<KV(in_a, in_x)>> \o nst \o ck) :
        nst \in Opt(s_nodeStartupTimeout, TimeoutVals),
        ck \in Opt(s_checks, ChecksVals)}
    \cup
    {MapV(ck \o uc \o <<KV(in_a, in_x)>>) :
        uc \in Opt(s_unhealthyConditions, ConditionVals),
        ck \in Opt(s_checks, ChecksVals)}
    \cup
    {MapV(mu \o rm \o rt) :
        mu \in Opt(s_maxUnhealthy, {in_40pct, IntV(3), Null}),
        rm \in Opt(s_remediation, RemediationVals),
        rt \in Opt(s_remediationTemplate, TemplateVals)}
    \cup
    {MapV(<<KV(s_remediationTemplate, t_full), KV(s_maxUnhealthy, in_40pct),
            KV(s_unhealthyConditions, SeqV(<<c_ready>>))>> \o nst) :
        nst \in Opt(s_nodeStartupTimeout, {in_10m, in_soon})}
    \cup MhcDeep
    \cup {in_x, Null}

MhcDocs ==
    {MapV(<<KV(s_kind, StrV(s_MachineHealthCheck))>> \o sp) : sp \in Opt(s_spec, MhcSpecs)}
    \cup
    {MapV(<<KV(s_kind, in_Pod),
            KV(s_spec, MapV(<<KV(s_nodeStartupTimeout, in_10m),
                              KV(s_maxUnhealthy, in_40pct)>>))>>)}


KcpTemplates ==
    {MapV(ir \o <<KV(in_a, in_x)>> \o sp) :
        ir \in Opt(s_infrastructureRef, {t_full, r_pod, r_slash, in_x}),
        sp \in Opt(s_spec, {EmptyMap, MapV(<<KV(s_infrastructureRef, r_pod)>>),
                            MapV(<<KV(in_a, in_x)>>), in_x})}
    \cup {in_x}

KcpDocs ==
    {MapV(<<KV(s_kind, StrV(s_KubeadmControlPlane)),
            KV(s_spec, MapV(<<KV(s_machineTemplate, mt)>>))>>) : mt \in KcpTemplates}
    \cup
    {MapV(<<KV(s_kind, StrV(s_KubeadmControlPlane))>> \o sp) : sp \in Opt(s_spec, {in_x})}
    \cup
    {MapV(<<KV(s_kind, in_Pod),
            KV(s_spec, MapV(<<KV(s_machineTemplate,
                                 MapV(<<KV(s_infrastructureRef, t_full)>>))>>))>>)}

\* documents without any key or kind the rules look for
PlainDocs ==
    {in_x, Null, IntV(1), SeqV(<<>>), EmptyMap,
     MapV(<<KV(s_kind, in_Pod), KV(in_metadata, MapV(<<KV(s_name, in_x)>>)),
            KV(s_spec, MapV(<<KV(in_a, SeqV(<<IntV(1), in_x>>))>>))>>)}

BaseDocs == ArgDocs \cup RefDocs \cup CpeDocs \cup MhcDocs \cup KcpDocs \cup PlainDocs

\* one more level: under a mapping key, or as an element of a sequence
Wrap(d) ==
    {MapV(<<KV(in_metadata, in_x), KV(in_template, d)>>),
     SeqV(<<in_x, d>>)}

RECURSIVE Nested(_)
Nested(depth) ==
    IF depth = 0 THEN BaseDocs
    ELSE LET inner == Nested(depth - 1)
         IN  inner \cup UNION {Wrap(d) : d \in inner}

Docs == Nested(MaxDepth)

\* arguments of infer_api_group
InferApiVersions ==
    RefApiVersions \cup
    {StrV(<<"a", "/", "b", "/", "c">>), StrV(<<"/">>), StrV(<<>>), Null,
     StrV(g_bootstrap \o <<"/", "v", "1">>)}

InferKinds ==
    RefKinds \cup
    {StrV(s_KubeadmControlPlaneTemplate), StrV(s_KubeadmConfig),
     StrV(s_KubeadmConfigTemplateList), in_HCloudMachineTemplate,
     StrV(<<"M", "y">> \o s_BM \o <<"H", "o", "s", "t">>),
     StrV(s_Hetzner \o <<"X">>), StrV(<<"A">> \o s_BareMetal),
     StrV(s_Cluster \o <<"F", "o", "o">>), StrV(<<"F", "o", "o">> \o s_Cluster),
     StrV(<<"k", "u", "b", "e", "a", "d", "m", "c", "o", "n", "f", "i", "g">>),
     StrV(s_KubeadmConfig \o <<"s">>), StrV(<<>>), Null}

InferInputs ==
    {MapV(kd \o av \o <<KV(s_name, in_x)>>) :
        av \in Opt(s_apiVersion, InferApiVersions),
        kd \in Opt(s_kind, InferKinds)}

(***************************************************************************)
(* The state machine: a caller that holds a loaded document and calls      *)
(* transform on it, at most MaxCalls times (process_file calls it once per *)
(* document; running the script again on its own output calls it again).   *)
(***************************************************************************)
\* no script is running
FileIdle ==
    /\ is_file = FALSE
    /\ disk = [text |-> <<>>, docs |-> <<>>, parses |-> TRUE]
    /\ disk0 = disk
    /\ original_text = <<>>
    /\ updated_text = <<>>
    /\ docs = <<>>
    /\ any_changed = FALSE
    /\ next_doc = 1
    /\ opened = 0
    /\ printed = <<>>
    /\ exit_code = 0
    /\ fpc = "off"

Init ==
    /\ doc \in Docs
    /\ prev = doc
    /\ changed = FALSE
    /\ raised = FALSE
    /\ calls = 0
    /\ ref = EmptyMap
    /\ inferred = NoGroup
    /\ ipc = "off"
    /\ dur_arg = <<>>
    /\ dur_ret = NoSeconds
    /\ dpc = "off"
    /\ FileIdle

\* transform(doc)
CallTransform ==
    /\ calls < MaxCalls
    /\ ~raised
    /\ LET r == transform(doc)
       IN  /\ doc' = r.n
           /\ raised' = r.err
           /\ changed' = IF r.err THEN changed ELSE r.c
    /\ prev' = doc
    /\ calls' = calls + 1
    /\ UNCHANGED <<inferVars, durVars, fileVars>>

Next == CallTransform

Spec == Init /\ [][Next]_vars

(***************************************************************************)
(* infer_api_group on its own: one call on a reference block.              *)
(***************************************************************************)
InitInfer ==
    /\ ref \in InferInputs
    /\ inferred = NoGroup
    /\ ipc = "arg"
    /\ doc = Null
    /\ prev = Null
    /\ changed = FALSE
    /\ raised = FALSE
    /\ calls = 0
    /\ dur_arg = <<>>
    /\ dur_ret = NoSeconds
    /\ dpc = "off"
    /\ FileIdle

\* infer_api_group(ref)
CallInfer ==
    /\ ipc = "arg"
    /\ inferred' = infer_api_group(ref)
    /\ ipc' = "ret"
    /\ UNCHANGED <<walkVars, ref, durVars, fileVars>>

NextInfer == CallInfer

SpecInfer == InitInfer /\ [][NextInfer]_vars

(***************************************************************************)
(* duration_to_seconds on its own: one call on a string.                   *)
(***************************************************************************)
MaxLen == 3

\* the characters the strings are made of: digits, the unit letters in both
\* cases, whitespace, a sign, a point and a letter that is no unit
DurationChars ==
    {"0", "1", "7", "s", "m", "h", "d", "S", "M", "H", "D", " ", "\t", "-", ".", "x"}

\* every string of at most MaxLen of these characters
DurationInputs == UNION {[1..n -> DurationChars] : n \in 0..MaxLen}

InitDuration ==
    /\ dur_arg \in DurationInputs
    /\ dur_ret = NoSeconds
    /\ dpc = "arg"
    /\ doc = Null
    /\ prev = Null
    /\ changed = FALSE
    /\ raised = FALSE
    /\ calls = 0
    /\ ref = EmptyMap
    /\ inferred = NoGroup
    /\ ipc = "off"
    /\ FileIdle

\* duration_to_seconds(dur_arg)
CallDuration ==
    /\ dpc = "arg"
    /\ dur_ret' = duration_to_seconds(dur_arg)
    /\ dpc' = "ret"
    /\ UNCHANGED <<walkVars, inferVars, dur_arg, fileVars>>

NextDuration == CallDuration

SpecDuration == InitDuration /\ [][NextDuration]_vars

(***************************************************************************)
(* process_file and main: one run of the script on one path.  The file is  *)
(* [text, docs, parses]: its raw text as far as the substitution reads it, *)
(* the documents ruamel.yaml's load_all yields from it, and whether        *)
(* load_all succeeds on it (the YAML parser and dumper are a library       *)
(* outside this repository: what they yield is given with the file).       *)
(***************************************************************************)
\* replaces the first occurrence only
mut_replace_first(text, old, new) ==
    IF \E i \in 1..(Len(text) - Len(old) + 1) : SubSeq(text, i, i + Len(old) - 1) = old
    THEN LET i == CHOOSE j \in 1..(Len(text) - Len(old) + 1) :
                    /\ SubSeq(text, j, j + Len(old) - 1) = old
                    /\ \A h \in 1..(j - 1) : SubSeq(text, h, h + Len(old) - 1) # old
         IN  SubSeq(text, 1, i - 1) \o new \o SubSeq(text, i + Len(old), Len(text))
    ELSE text

\* str.replace(old, new): the occurrences of old from left to right, none
\* overlapping another
RECURSIVE replace(_, _, _)
replace(text, old, new) ==
    IF Len(text) < Len(old) THEN text
    ELSE IF SubSeq(text, 1, Len(old)) = old
    THEN new \o replace(SubSeq(text, Len(old) + 1, Len(text)), old, new)
    ELSE <<Head(text)>> \o replace(Tail(text), old, new)

\* exit statuses: argparse's parser.error, an uncaught exception, return 0
ExitUsage == 2

ExitException == 1

ExitOk == 0

MaxPieces == 2

MaxDocs == 2

\* the legacy identifier without its last character
in_legacy_cut == SubSeq(s_legacy, 1, Len(s_legacy) - 1)

\* what the raw texts are made of: the legacy and the successor identifier,
\* a comment sign, the legacy identifier cut short and its last character
TextPieces == {s_legacy, s_successor, <<"#", " ">>, in_legacy_cut, <<"1">>}

RECURSIVE Texts(_)
Texts(n) ==
    IF n = 0 THEN {<<>>}
    ELSE Texts(n - 1) \cup {t \o piece : t \in Texts(n - 1), piece \in TextPieces}

\* documents of a file: one that no rule touches, one that a rule changes,
\* one that a rule changes without setting the flag, one on which transform
\* raises
d_plain == MapV(<<KV(s_kind, in_Pod), KV(s_apiVersion, in_v1)>>)

d_args == MapV(<<KV(s_kubeletExtraArgs, MapV(<<KV(in_a, ArgValue(in_a))>>))>>)

d_quiet ==
    MapV(<<KV(s_kind, StrV(s_MachineHealthCheck)),
           KV(s_spec, MapV(<<KV(s_nodeStartupTimeout, in_soon)>>))>>)

d_bad == MapV(<<KV(s_name, in_x), KV(s_kubeletExtraArgs, in_x)>>)

FileDocs == {d_plain, d_args, d_quiet, d_bad}

DocLists == UNION {[1..n -> FileDocs] : n \in 0..MaxDocs}

\* the files: those the parser loads, and those it fails on
Files ==
    {[text |-> t, docs |-> ds, parses |-> TRUE] : t \in Texts(MaxPieces), ds \in DocLists}
    \cup
    {[text |-> t, docs |-> <<>>, parses |-> FALSE] : t \in Texts(MaxPieces)}

InitFile ==
    /\ is_file \in BOOLEAN
    /\ disk \in Files
    /\ disk0 = disk
    /\ original_text = <<>>
    /\ updated_text = <<>>
    /\ docs = <<>>
    /\ any_changed = FALSE
    /\ next_doc = 1
    /\ opened = 0
    /\ printed = <<>>
    /\ exit_code = ExitOk
    /\ fpc = "main"
    /\ doc = Null
    /\ prev = Null
    /\ changed = FALSE
    /\ raised = FALSE
    /\ calls = 0
    /\ ref = EmptyMap
    /\ inferred = NoGroup
    /\ ipc = "off"
    /\ dur_arg = <<>>
    /\ dur_ret = NoSeconds
    /\ dpc = "off"

\* lines 307-308: if not args.yaml_file.is_file(): parser.error(...)
NotAFile ==
    /\ fpc = "main"
    /\ ~is_file
    /\ exit_code' = ExitUsage
    /\ fpc' = "exit"
    /\ UNCHANGED <<walkVars, inferVars, durVars>>
    /\ UNCHANGED <<is_file, disk, disk0, original_text, updated_text, docs, any_changed,
                   next_doc, opened, printed>>

\* lines 310, 282-285: process_file reads the text and substitutes
ReadText ==
    /\ fpc = "main"
    /\ is_file
    /\ original_text' = disk.text
    /\ updated_text' = replace(disk.text, s_legacy, s_successor)
    /\ fpc' = "load"
    /\ UNCHANGED <<walkVars, inferVars, durVars>>
    /\ UNCHANGED <<is_file, disk, disk0, docs, any_changed, next_doc, opened, printed,
                   exit_code>>

\* forgets what the substitution did when it sets any_changed
mut_load_forgets_substitution ==
    /\ fpc = "load"
    /\ disk.parses
    /\ docs' = disk.docs
    /\ any_changed' = FALSE
    /\ next_doc' = 1
    /\ fpc' = "loop"
    /\ UNCHANGED <<walkVars, inferVars, durVars>>
    /\ UNCHANGED <<is_file, disk, disk0, original_text, updated_text, opened, printed,
                   exit_code>>

\* lines 287-289: docs = list(yaml.load_all(updated_text)); any_changed = ...
LoadAll ==
    /\ fpc = "load"
    /\ disk.parses
    /\ docs' = disk.docs
    /\ any_changed' = (updated_text # original_text)
    /\ next_doc' = 1
    /\ fpc' = "loop"
    /\ UNCHANGED <<walkVars, inferVars, durVars>>
    /\ UNCHANGED <<is_file, disk, disk0, original_text, updated_text, opened, printed,
                   exit_code>>

\* line 287: load_all raises, nothing catches it
LoadFails ==
    /\ fpc = "load"
    /\ ~disk.parses
    /\ exit_code' = ExitException
    /\ fpc' = "exit"
    /\ UNCHANGED <<walkVars, inferVars, durVars>>
    /\ UNCHANGED <<is_file, disk, disk0, original_text, updated_text, docs, any_changed,
                   next_doc, opened, printed>>

\* lines 290-292 for a call that returns: the document is updated in place
TransformReturned(r) ==
    /\ docs' = [docs EXCEPT ![next_doc] = r.n]
    /\ any_changed' = (any_changed \/ r.c)
    /\ next_doc' = next_doc + 1
    /\ fpc' = "loop"
    /\ UNCHANGED <<disk, opened, exit_code>>

\* dumps what it has when the call raises
mut_raised_after_dump(r) ==
    /\ docs' = [docs EXCEPT ![next_doc] = r.n]
    /\ disk' = [text |-> updated_text, docs |-> docs', parses |-> TRUE]
    /\ opened' = opened + 1
    /\ exit_code' = ExitException
    /\ fpc' = "exit"
    /\ UNCHANGED <<any_changed, next_doc>>

\* line 291 for a call that raises TypeError, which nothing catches
TransformRaised(r) ==
    /\ docs' = [docs EXCEPT ![next_doc] = r.n]
    /\ exit_code' = ExitException
    /\ fpc' = "exit"
    /\ UNCHANGED <<disk, opened, any_changed, next_doc>>

\* lines 290-292: one round of for doc in docs
TransformDoc ==
    /\ fpc = "loop"
    /\ next_doc <= Len(docs)
    /\ \E r \in {transform(docs[next_doc])} :
          IF r.err THEN TransformRaised(r) ELSE TransformReturned(r)
    /\ UNCHANGED <<walkVars, inferVars, durVars>>
    /\ UNCHANGED <<is_file, disk0, original_text, updated_text, printed>>

\* lines 294-296: if any_changed: the file is opened for writing and dumped
WriteBack ==
    /\ fpc = "loop"
    /\ next_doc > Len(docs)
    /\ any_changed
    /\ opened' = opened + 1
    /\ disk' = [text |-> updated_text, docs |-> docs, parses |-> TRUE]
    /\ fpc' = "report"
    /\ UNCHANGED <<walkVars, inferVars, durVars>>
    /\ UNCHANGED <<is_file, disk0, original_text, updated_text, docs, any_changed,
                   next_doc, printed, exit_code>>

\* lines 294, 298: nothing changed, return any_changed
SkipWrite ==
    /\ fpc = "loop"
    /\ next_doc > Len(docs)
    /\ ~any_changed
    /\ fpc' = "report"
    /\ UNCHANGED <<walkVars, inferVars, durVars>>
    /\ UNCHANGED <<is_file, disk, disk0, original_text, updated_text, docs, any_changed,
                   next_doc, opened, printed, exit_code>>

\* lines 310-315: the line main prints, and return 0
Report ==
    /\ fpc = "report"
    /\ printed' = Append(printed, IF any_changed THEN "Updated" ELSE "No changes needed")
    /\ exit_code' = ExitOk
    /\ fpc' = "exit"
    /\ UNCHANGED <<walkVars, inferVars, durVars>>
    /\ UNCHANGED <<is_file, disk, disk0, original_text, updated_text, docs, any_changed,
                   next_doc, opened>>

NextFile ==
    \/ NotAFile
    \/ ReadText
    \/ LoadAll
    \/ LoadFails
    \/ TransformDoc
    \/ WriteBack
    \/ SkipWrite
    \/ Report

SpecFile == InitFile /\ [][NextFile]_vars

(***************************************************************************)
(* Vocabulary of the properties.                                           *)
(***************************************************************************)
\* a call of transform has returned: doc is its result on prev
Returned == calls >= 1 /\ ~raised

\* every node of a tree, the root included
RECURSIVE NodesOf(_)
NodesOf(x) ==
    {x} \cup
    IF IsMap(x) THEN UNION {NodesOf(x.e[i].v) : i \in 1..Len(x.e)}
    ELSE IF IsSeq(x) THEN UNION {NodesOf(x.e[i]) : i \in 1..Len(x.e)}
    ELSE {}

MapsOf(x) == {m \in NodesOf(x) : IsMap(m)}

Keys(m) == {m.e[i].k : i \in 1..Len(m.e)}

\* <<x, y>>: a mapping node x of tree a and the mapping node y found at the
\* same place (same keys, same indexes from the root) of tree b; the place
\* of the value of entry i of a Mapping that became a name/value list is
\* the value of item i of the list
RECURSIVE Pairs(_, _)
Pairs(a, b) ==
    IF IsMap(a) /\ IsMap(b)
    THEN {<<a, b>>} \cup
         UNION {Pairs(Get(a, key), Get(b, key)) : key \in Keys(a) \cap Keys(b)}
    ELSE IF IsSeq(a) /\ IsSeq(b) /\ Len(a.e) = Len(b.e)
    THEN UNION {Pairs(a.e[i], b.e[i]) : i \in 1..Len(a.e)}
    ELSE IF IsMap(a) /\ IsSeq(b) /\ Len(a.e) = Len(b.e)
    THEN UNION {IF IsMap(b.e[i]) THEN Pairs(a.e[i].v, Get(b.e[i], s_value)) ELSE {} :
                    i \in 1..Len(a.e)}
    ELSE {}

ArgKeyNames == {s_kubeletExtraArgs, s_extraArgs}

RefKeyNames == {s_infrastructureRef, s_controlPlaneRef, s_configRef}

IsMhc(m) == IsMap(m) /\ Get(m, s_kind) = StrV(s_MachineHealthCheck)

\* a string the Duration Parser does not match
Malformed(x) == IsStr(x) /\ duration_to_seconds(x.s) = NoSeconds

(***************************************************************************)
(* C1.  Idempotence: a second call of transform on the result of a call    *)
(* that completed leaves the tree as the first call left it and returns    *)
(* changed = false.                                                        *)
(* Stated as written; the code violates it (see C1_Idempotent's trace).    *)
(***************************************************************************)
C1_Idempotent ==
    (calls >= 2 /\ ~raised) => (doc = prev /\ changed = FALSE)

(***************************************************************************)
(* C2.  Change-flag accuracy: transform returns true if and only if the    *)
(* tree differs after the call from the tree before it.                    *)
(* Stated as written; the code violates it.                                *)
(***************************************************************************)
C2_FlagAccurate ==
    Returned => (changed <=> doc # prev)

(***************************************************************************)
(* C3.  Malformed durations are kept: when spec.nodeStartupTimeout of a    *)
(* MachineHealthCheck, or the timeout of one of its unhealthyConditions    *)
(* entries, is a string the Duration Parser does not match, the call       *)
(* raises nothing and the value is still in the document afterwards        *)
(* (at its source key or, unconverted, at its destination key).            *)
(* Stated as written; the code violates it.                                *)
(***************************************************************************)
\* the startup timeout of MachineHealthCheck y is still v
StartupTimeoutKept(y, v) ==
    /\ IsMap(Get(y, s_spec))
    /\ \/ Get(Get(y, s_spec), s_nodeStartupTimeout) = v
       \/ /\ IsMap(Get(Get(y, s_spec), s_checks))
          /\ Get(Get(Get(y, s_spec), s_checks), s_nodeStartupTimeoutSeconds) = v

\* some entry of the sequence conds still holds the timeout v
TimeoutKeptIn(conds, v) ==
    /\ IsSeq(conds)
    /\ \E i \in 1..Len(conds.e) :
          /\ IsMap(conds.e[i])
          /\ \/ Get(conds.e[i], s_timeout) = v
             \/ Get(conds.e[i], s_timeoutSeconds) = v

\* the condition timeout v of MachineHealthCheck y is still in its spec
ConditionTimeoutKept(y, v) ==
    /\ IsMap(Get(y, s_spec))
    /\ \/ TimeoutKeptIn(Get(Get(y, s_spec), s_unhealthyConditions), v)
       \/ /\ IsMap(Get(Get(y, s_spec), s_checks))
          /\ TimeoutKeptIn(Get(Get(Get(y, s_spec), s_checks), s_unhealthyNodeConditions), v)

\* the malformed condition timeouts of MachineHealthCheck x
MalformedConditionTimeouts(x) ==
    LET conds == Get(Get(x, s_spec), s_unhealthyConditions)
    IN  IF IsMap(Get(x, s_spec)) /\ IsSeq(conds)
        THEN {Get(conds.e[i], s_timeout) :
                 i \in {j \in 1..Len(conds.e) :
                           IsMap(conds.e[j]) /\ Malformed(Get(conds.e[j], s_timeout))}}
        ELSE {}

HasMalformedStartupTimeout(x) ==
    /\ IsMhc(x)
    /\ IsMap(Get(x, s_spec))
    /\ Malformed(Get(Get(x, s_spec), s_nodeStartupTimeout))

\* C3: after a call on a document holding a malformed duration, nothing was
\* raised and every malformed value is still in the document
C3_MalformedKept ==
    calls >= 1 =>
        \A x \in MapsOf(prev) :
            (IsMhc(x) /\ (HasMalformedStartupTimeout(x)
                          \/ MalformedConditionTimeouts(x) # {})) =>
                /\ ~raised
                /\ \E p \in Pairs(prev, doc) :
                      /\ p[1] = x
                      /\ HasMalformedStartupTimeout(x) =>
                            StartupTimeoutKept(p[2], Get(Get(x, s_spec), s_nodeStartupTimeout))
                      /\ \A v \in MalformedConditionTimeouts(x) :
                            ConditionTimeoutKept(p[2], v)

(***************************************************************************)
(* C4.  Strict shape check for both argument keys: when a mapping node of  *)
(* the tree holds kubeletExtraArgs or extraArgs with a value that is       *)
(* neither a Mapping nor a Sequence, the call fails with an error.         *)
(* Stated as written; the code violates it for extraArgs.                  *)
(***************************************************************************)
HasBadArgs(x, key) ==
    Has(x, key) /\ ~IsMap(Get(x, key)) /\ ~IsSeq(Get(x, key))

\* C4: a call on a tree with a kubeletExtraArgs or extraArgs value that is
\* neither a Mapping nor a Sequence raises
C4_StrictBothKeys ==
    (calls = 1 /\ \E x \in MapsOf(prev) : \E key \in ArgKeyNames : HasBadArgs(x, key))
        => raised

(***************************************************************************)
(* C5.  Mapping-to-list normalization: for every mapping node x of the     *)
(* tree (found again, after a call that returned, as y at the same place), *)
(* if the kubeletExtraArgs or extraArgs value of x is a Mapping with       *)
(* entries (k1,v1)..(kn,vn), that value is afterwards the Sequence         *)
(* [{name: k1, value: v1}, .., {name: kn, value: vn}] in the original key  *)
(* order and changed is true; a value that is already a Sequence stays a   *)
(* Sequence of the same elements; and no mapping node of the result holds  *)
(* a Mapping under either key.  The values vi and the elements are the     *)
(* node objects, which the rest of the walk updates in place: in the       *)
(* model's values they are vi, resp. the element, as transform leaves it.  *)
(***************************************************************************)
\* node v as the walk leaves it
Walked(v) == transform(v).n

\* the values of a sequence, each as the walk leaves it
WalkedAll(seq) == [i \in 1..Len(seq) |-> Walked(seq[i])]

\* the Sequence [{name: k1, value: v1}, .., {name: kn, value: vn}]
NameValueList(mapping) ==
    SeqV([i \in 1..Len(mapping.e) |->
            MapV(<<KV(s_name, StrV(mapping.e[i].k)),
                   KV(s_value, Walked(mapping.e[i].v))>>)])

\* no mapping node of the tree holds a Mapping under an argument key
NoArgMappings(tree) ==
    \A m \in MapsOf(tree) : \A key \in ArgKeyNames : ~IsMap(Get(m, key))

\* C5 as written: the conversion holds of every mapping node of the tree
\* before the call
C5_ConvertedAsWritten ==
    Returned =>
        /\ \A m \in MapsOf(prev) : \A key \in ArgKeyNames :
              (Has(m, key) /\ IsMap(Get(m, key))) =>
                    /\ changed
                    /\ \E p \in Pairs(prev, doc) :
                          /\ p[1] = m
                          /\ Get(p[2], key) = NameValueList(Get(m, key))
        /\ NoArgMappings(doc)

\* C5 as amended: the conversion holds of every mapping node that is still a
\* mapping node of the tree after the call
C5_Converted ==
    Returned =>
        /\ \A p \in Pairs(prev, doc) : \A key \in ArgKeyNames :
              /\ (Has(p[1], key) /\ IsMap(Get(p[1], key))) =>
                    /\ changed
                    /\ Get(p[2], key) = NameValueList(Get(p[1], key))
              /\ (Has(p[1], key) /\ IsSeq(Get(p[1], key))) =>
                    /\ IsSeq(Get(p[2], key))
                    /\ Len(Get(p[2], key).e) = Len(Get(p[1], key).e)
                    /\ \A i \in 1..Len(Get(p[1], key).e) :
                          Get(p[2], key).e[i] = Walked(Get(p[1], key).e[i])
        /\ NoArgMappings(doc)

\* a two-entry kubeletExtraArgs Mapping below the root became the list, in
\* the order of its keys
C5_Witness ==
    /\ calls = 1
    /\ ~raised
    /\ changed
    /\ \E p \in Pairs(prev, doc) :
          /\ p[1] # prev
          /\ Get(p[1], s_kubeletExtraArgs) =
                MapV(<<KV(in_b, ArgValue(in_b)), KV(in_a, ArgValue(in_a))>>)
          /\ Get(p[2], s_kubeletExtraArgs) = SeqV(<<ArgItem(in_b), ArgItem(in_a)>>)

(***************************************************************************)
(* C6.  Reference-block normalization: for every mapping node holding      *)
(* infrastructureRef, controlPlaneRef or configRef with a Mapping value R, *)
(* after transform R has no apiVersion key; if R had no apiGroup and       *)
(* inference on R as it was before the call returns a group, R.apiGroup    *)
(* equals that group; changed is true whenever apiVersion was deleted or   *)
(* apiGroup was set.                                                       *)
(* Stated as written; the code violates it when the inferred group is the  *)
(* empty text before a leading '/' (the case behind C1).                   *)
(***************************************************************************)
\* the reference blocks of the tree: <<R before, R after>>
RefPairs ==
    {rr \in {<<Get(p[1], key), Get(p[2], key)>> :
                p \in Pairs(prev, doc), key \in RefKeyNames} :
        IsMap(rr[1]) /\ IsMap(rr[2])}

\* C6: no reference block keeps apiVersion, a block without apiGroup gets the
\* group inference returns, and either change sets the flag
C6_RefNormalized ==
    Returned =>
        /\ \A m \in MapsOf(doc) : \A key \in RefKeyNames :
              IsMap(Get(m, key)) => ~Has(Get(m, key), s_apiVersion)
        /\ \A rr \in RefPairs :
              /\ (~Has(rr[1], s_apiGroup) /\ infer_api_group(rr[1]).ok) =>
                    /\ Has(rr[2], s_apiGroup)
                    /\ Get(rr[2], s_apiGroup) = StrV(infer_api_group(rr[1]).g)
              /\ (\/ Has(rr[1], s_apiVersion)
                  \/ ~Has(rr[1], s_apiGroup) /\ Has(rr[2], s_apiGroup)) => changed

(***************************************************************************)
(* C7.  apiGroup is never guessed and never overwritten: a reference block *)
(* that already has an apiGroup key keeps that value, even when its        *)
(* apiVersion names a different group; a block without apiGroup for which  *)
(* inference gives no group still has no apiGroup key afterwards; and the  *)
(* rule raises nothing: a call raises only for a kubeletExtraArgs value    *)
(* that is neither a Mapping nor a Sequence.                               *)
(***************************************************************************)
\* inference on R fails: it returns None, or no text at all
InferenceFails(R) == ~infer_api_group(R).ok \/ infer_api_group(R).g = <<>>

\* C7: an existing apiGroup is kept, a failed inference leaves the block
\* without apiGroup, and the rule raises nothing
C7_NeverGuessed ==
    /\ Returned =>
          \A rr \in RefPairs :
              /\ Has(rr[1], s_apiGroup) =>
                    /\ Has(rr[2], s_apiGroup)
                    /\ Get(rr[2], s_apiGroup) = Get(rr[1], s_apiGroup)
              /\ (~Has(rr[1], s_apiGroup) /\ InferenceFails(rr[1])) =>
                    ~Has(rr[2], s_apiGroup)
    /\ raised => \E x \in MapsOf(prev) : HasBadArgs(x, s_kubeletExtraArgs)

\* a block below the root kept apiGroup other.io although its apiVersion
\* named infrastructure.cluster.x-k8s.io, and a block of kind Pod without
\* apiVersion stayed without apiGroup
C7_Witness ==
    /\ calls = 1
    /\ ~raised
    /\ \E rr \in RefPairs :
          /\ Get(rr[1], s_apiGroup) = in_other_group
          /\ Get(rr[1], s_apiVersion) = in_v1beta2
          /\ Get(rr[2], s_apiGroup) = in_other_group
          /\ ~Has(rr[2], s_apiVersion)
    /\ \E rr \in RefPairs :
          /\ ~Has(rr[1], s_apiGroup)
          /\ ~infer_api_group(rr[1]).ok
          /\ ~Has(rr[2], s_apiGroup)

(***************************************************************************)
(* C8.  API-group inference follows a fixed first-success order:           *)
(* (1) apiVersion a string containing '/': the text before the first '/',  *)
(*     whatever kind is;                                                   *)
(* (2) else kind exactly KubeadmControlPlane or                            *)
(*     KubeadmControlPlaneTemplate: controlplane.cluster.x-k8s.io; kind    *)
(*     exactly KubeadmConfig, KubeadmConfigTemplate or                     *)
(*     KubeadmConfigTemplateList: bootstrap.cluster.x-k8s.io;              *)
(* (3) else kind containing HCloud, Hetzner, BareMetal or BM, or ending    *)
(*     with Cluster or MachineTemplate: infrastructure.cluster.x-k8s.io;   *)
(* (4) else no result, also when kind is absent or not a string.           *)
(***************************************************************************)
\* the positions of '/' in a text
Slashes(cs) == {i \in 1..Len(cs) : cs[i] = "/"}

\* text cs has part as a contiguous piece
Contains(cs, part) ==
    \E i \in 1..(Len(cs) + 1) : \E j \in 0..Len(cs) : SubSeq(cs, i, j) = part

\* text cs has suffix as its last characters
HasSuffix(cs, suffix) ==
    \E i \in 1..(Len(cs) + 1) : SubSeq(cs, i, Len(cs)) = suffix

\* the group steps (2)-(4) give for kind
ExpectedFromKind(kind) ==
    IF ~IsStr(kind) THEN NoGroup
    ELSE IF kind.s \in {s_KubeadmControlPlane, s_KubeadmControlPlaneTemplate}
         THEN Group(g_controlplane)
    ELSE IF kind.s \in {s_KubeadmConfig, s_KubeadmConfigTemplate,
                        s_KubeadmConfigTemplateList}
         THEN Group(g_bootstrap)
    ELSE IF \/ \E part \in {s_HCloud, s_Hetzner, s_BareMetal, s_BM} :
                  Contains(kind.s, part)
            \/ HasSuffix(kind.s, s_Cluster)
            \/ HasSuffix(kind.s, s_MachineTemplate)
         THEN Group(g_infrastructure)
    ELSE NoGroup

\* the group steps (1)-(4) give for reference block r
ExpectedGroup(r) ==
    LET av == Get(r, s_apiVersion)
    IN  IF IsStr(av) /\ Slashes(av.s) # {}
        THEN LET first == CHOOSE i \in Slashes(av.s) : \A j \in Slashes(av.s) : i <= j
             IN  Group([i \in 1..(first - 1) |-> av.s[i]])
        ELSE ExpectedFromKind(Get(r, s_kind))

\* C8: infer_api_group returns what steps (1)-(4) give
C8_InferenceOrder ==
    ipc = "ret" => inferred = ExpectedGroup(ref)

\* apiVersion a/b/c next to kind KubeadmControlPlane gave "a": step (1)
\* won over step (2) and cut at the first '/'
C8_Witness ==
    /\ ipc = "ret"
    /\ Get(ref, s_apiVersion) = StrV(<<"a", "/", "b", "/", "c">>)
    /\ Get(ref, s_kind) = StrV(s_KubeadmControlPlane)
    /\ inferred = Group(<<"a">>)

(***************************************************************************)
(* C9.  Empty-endpoint pruning: for every mapping node with a              *)
(* controlPlaneEndpoint key, the entry is deleted, and changed is true, if *)
(* and only if its value is a Mapping whose host is absent or is a text    *)
(* that is empty after trimming whitespace; otherwise (host not empty, as  *)
(* in {host: "1.2.3.4", port: 6443}, or the value not a Mapping) the entry *)
(* is still there with its value.  A host that is not a string (null, a    *)
(* number, a boolean, a collection) is present and not an empty text.      *)
(***************************************************************************)
\* host is absent from cpe, or is a string of whitespace only
HostEmptyOrAbsent(cpe) ==
    \/ ~Has(cpe, s_host)
    \/ /\ IsStr(Get(cpe, s_host))
       /\ \A i \in 1..Len(Get(cpe, s_host).s) : Get(cpe, s_host).s[i] \in Whitespace

ShouldPrune(cpe) == IsMap(cpe) /\ HostEmptyOrAbsent(cpe)

\* C9: the entry is gone and changed true exactly when the host is empty or
\* absent; otherwise the entry still holds its value
C9_EndpointPruned ==
    Returned =>
        \A p \in Pairs(prev, doc) :
            Has(p[1], s_controlPlaneEndpoint) =>
                IF ShouldPrune(Get(p[1], s_controlPlaneEndpoint))
                THEN ~Has(p[2], s_controlPlaneEndpoint) /\ changed
                ELSE /\ Has(p[2], s_controlPlaneEndpoint)
                     /\ Get(p[2], s_controlPlaneEndpoint) =
                            Get(p[1], s_controlPlaneEndpoint)

\* below the root, an endpoint whose host is blanks only was deleted
C9_Witness ==
    /\ calls = 1
    /\ ~raised
    /\ changed
    /\ \E p \in Pairs(prev, doc) :
          /\ p[1] # prev
          /\ Has(p[1], s_controlPlaneEndpoint)
          /\ Get(Get(p[1], s_controlPlaneEndpoint), s_host) = StrV(<<" ", "\t">>)
          /\ ~Has(p[2], s_controlPlaneEndpoint)
          /\ Has(p[2], s_kind)

(***************************************************************************)
(* C10.  MachineHealthCheck nodeStartupTimeout move: for a mapping node    *)
(* with kind = MachineHealthCheck whose spec is a Mapping containing       *)
(* nodeStartupTimeout, after transform spec.checks.nodeStartupTimeoutSeconds *)
(* is the Duration Parser's result when the source is a string the parser  *)
(* matches ("10m" gives 600) and is the source value itself when the       *)
(* source is not a string; in both cases the key spec.nodeStartupTimeout   *)
(* is gone and changed is true.  If spec is absent or not a Mapping, the   *)
(* node is left as it was.                                                 *)
(***************************************************************************)
\* the source value moves: a string the parser matches, or not a string
Moves(src) == ~Malformed(src)

\* what the move stores for source value src, as the walk leaves it
MovedValue(src) == IF IsStr(src) THEN IntV(duration_to_seconds(src.s)) ELSE Walked(src)

\* spec after the call holds the moved value of src and no source key
StartupTimeoutMoved(spec_after, src) ==
    /\ IsMap(spec_after)
    /\ ~Has(spec_after, s_nodeStartupTimeout)
    /\ IsMap(Get(spec_after, s_checks))
    /\ Has(Get(spec_after, s_checks), s_nodeStartupTimeoutSeconds)
    /\ Get(Get(spec_after, s_checks), s_nodeStartupTimeoutSeconds) = MovedValue(src)

\* C10: the moved value is under spec.checks.nodeStartupTimeoutSeconds, the
\* source key is gone and changed is true; without a Mapping spec the node
\* stays as it was
C10_StartupTimeoutMoved ==
    /\ duration_to_seconds(in_10m.s) = 600
    /\ Returned =>
          \A p \in Pairs(prev, doc) :
              IsMhc(p[1]) =>
                  IF IsMap(Get(p[1], s_spec))
                  THEN (/\ Has(Get(p[1], s_spec), s_nodeStartupTimeout)
                        /\ Moves(Get(Get(p[1], s_spec), s_nodeStartupTimeout))) =>
                          /\ changed
                          /\ StartupTimeoutMoved(
                                Get(p[2], s_spec),
                                Get(Get(p[1], s_spec), s_nodeStartupTimeout))
                  ELSE p[2] = p[1]

\* below the root, nodeStartupTimeout "10m" became
\* checks.nodeStartupTimeoutSeconds 600
C10_Witness ==
    /\ calls = 1
    /\ ~raised
    /\ changed
    /\ \E p \in Pairs(prev, doc) :
          /\ p[1] # prev
          /\ IsMhc(p[1])
          /\ Get(Get(p[1], s_spec), s_nodeStartupTimeout) = in_10m
          /\ ~Has(Get(p[2], s_spec), s_nodeStartupTimeout)
          /\ Get(Get(Get(p[2], s_spec), s_checks), s_nodeStartupTimeoutSeconds) = IntV(600)

(***************************************************************************)
(* C11.  MachineHealthCheck unhealthyConditions move: when                 *)
(* spec.unhealthyConditions is a list, after transform                     *)
(* spec.checks.unhealthyNodeConditions is the list obtained by mapping     *)
(* each entry, in the original order, to {type, status, timeoutSeconds}    *)
(* (type and status copied when present, timeoutSeconds the converted      *)
(* timeout), without the entries that reduce to an empty mapping; the      *)
(* source key spec.unhealthyConditions is removed.                         *)
(* Stated as written; the code violates it when the list obtained is       *)
(* empty.                                                                  *)
(***************************************************************************)
\* the entries <<key, value>> that entry cond of the source list maps to
ExpectedType(cond) ==
    IF Has(cond, s_type) THEN <<KV(s_type, Get(cond, s_type))>> ELSE <<>>

ExpectedStatus(cond) ==
    IF Has(cond, s_status) THEN <<KV(s_status, Get(cond, s_status))>> ELSE <<>>

\* the converted timeout: the parser's seconds for a string it matches, a
\* value that is not a string as it is, nothing for no timeout
ExpectedTimeoutSeconds(cond) ==
    IF ~Has(cond, s_timeout) \/ Get(cond, s_timeout) = Null \/ Malformed(Get(cond, s_timeout))
    THEN <<>>
    ELSE IF IsStr(Get(cond, s_timeout))
    THEN <<KV(s_timeoutSeconds, IntV(duration_to_seconds(Get(cond, s_timeout).s)))>>
    ELSE <<KV(s_timeoutSeconds, Get(cond, s_timeout))>>

ExpectedCondition(cond) ==
    IF IsMap(cond)
    THEN MapV(ExpectedType(cond) \o ExpectedStatus(cond) \o ExpectedTimeoutSeconds(cond))
    ELSE EmptyMap

\* the mapped entries in the original order, the empty ones left out
ExpectedConditions(conditions) ==
    SeqV(SelectSeq([i \in 1..Len(conditions.e) |-> ExpectedCondition(conditions.e[i])],
                   LAMBDA c : c # EmptyMap))

\* MachineHealthCheck x has a Mapping spec whose unhealthyConditions is a list
HasConditionList(x) ==
    /\ IsMhc(x)
    /\ IsMap(Get(x, s_spec))
    /\ IsSeq(Get(Get(x, s_spec), s_unhealthyConditions))

\* spec.checks.unhealthyNodeConditions of y is the list as the walk leaves it,
\* the source key is gone
ConditionsMoved(y, conditions) ==
    /\ IsMap(Get(y, s_spec))
    /\ ~Has(Get(y, s_spec), s_unhealthyConditions)
    /\ IsMap(Get(Get(y, s_spec), s_checks))
    /\ Get(Get(Get(y, s_spec), s_checks), s_unhealthyNodeConditions) = Walked(conditions)

\* C11: after a call on a MachineHealthCheck whose spec.unhealthyConditions is
\* a list, the mapped list is at spec.checks.unhealthyNodeConditions and the
\* source key is gone
C11_ConditionsMoved ==
    Returned =>
        \A p \in Pairs(prev, doc) :
            HasConditionList(p[1]) =>
                ConditionsMoved(p[2],
                    ExpectedConditions(Get(Get(p[1], s_spec), s_unhealthyConditions)))

\* spec.checks.unhealthyNodeConditions of x, as a sequence of at most one value
NodeConditionsOf(x) ==
    IF /\ IsMap(Get(x, s_spec))
       /\ IsMap(Get(Get(x, s_spec), s_checks))
       /\ Has(Get(Get(x, s_spec), s_checks), s_unhealthyNodeConditions)
    THEN <<Get(Get(Get(x, s_spec), s_checks), s_unhealthyNodeConditions)>>
    ELSE <<>>

\* C11 as amended: a list obtained that is not empty is at
\* spec.checks.unhealthyNodeConditions; when it is empty the destination is as
\* it was before the call (not created, not emptied); the source key is gone
\* in both cases
C11_ConditionsMovedUnlessEmpty ==
    Returned =>
        \A p \in Pairs(prev, doc) :
            HasConditionList(p[1]) =>
                IF ExpectedConditions(Get(Get(p[1], s_spec), s_unhealthyConditions))
                        # SeqV(<<>>)
                THEN ConditionsMoved(p[2],
                        ExpectedConditions(Get(Get(p[1], s_spec), s_unhealthyConditions)))
                ELSE /\ IsMap(Get(p[2], s_spec))
                     /\ ~Has(Get(p[2], s_spec), s_unhealthyConditions)
                     /\ NodeConditionsOf(p[2]) = WalkedAll(NodeConditionsOf(p[1]))

\* below the root, a list of four entries, two of which reduce to nothing,
\* became the list of the two others, in their order
C11_Witness ==
    /\ calls = 1
    /\ ~raised
    /\ \E p \in Pairs(prev, doc) :
          /\ p[1] # prev
          /\ HasConditionList(p[1])
          /\ Get(Get(p[1], s_spec), s_unhealthyConditions) =
                SeqV(<<c_only_bad, c_null, EmptyMap, c_ready>>)
          /\ ~Has(Get(p[2], s_spec), s_unhealthyConditions)
          /\ NodeConditionsOf(p[2]) =
                <<SeqV(<<MapV(<<KV(s_status, in_Unknown)>>),
                         MapV(<<KV(s_type, in_Ready), KV(s_status, in_Unknown),
                                KV(s_timeoutSeconds, IntV(300))>>)>>)>>

(***************************************************************************)
(* C12.  MachineHealthCheck maxUnhealthy never overwrites: when            *)
(* spec.maxUnhealthy is present,                                           *)
(* spec.remediation.triggerIf.unhealthyLessThanOrEqualTo is the            *)
(* maxUnhealthy value after the call if that target was not set before     *)
(* it; a target that was set has the value it had, whatever maxUnhealthy   *)
(* was.                                                                    *)
(***************************************************************************)
\* spec.remediation.triggerIf.unhealthyLessThanOrEqualTo of x, as a sequence
\* of at most one value: empty when the target is not set
TriggerOf(x) ==
    IF /\ IsMap(Get(x, s_spec))
       /\ IsMap(Get(Get(x, s_spec), s_remediation))
       /\ IsMap(Get(Get(Get(x, s_spec), s_remediation), s_triggerIf))
       /\ Has(Get(Get(Get(x, s_spec), s_remediation), s_triggerIf),
              s_unhealthyLessThanOrEqualTo)
    THEN <<Get(Get(Get(Get(x, s_spec), s_remediation), s_triggerIf),
               s_unhealthyLessThanOrEqualTo)>>
    ELSE <<>>

\* MachineHealthCheck x has a Mapping spec holding maxUnhealthy
HasMaxUnhealthy(x) ==
    IsMhc(x) /\ IsMap(Get(x, s_spec)) /\ Has(Get(x, s_spec), s_maxUnhealthy)

\* C12: the target holds maxUnhealthy if it was not set, its own value if it was
C12_NeverOverwrites ==
    Returned =>
        \A p \in Pairs(prev, doc) :
            HasMaxUnhealthy(p[1]) =>
                IF TriggerOf(p[1]) = <<>>
                THEN TriggerOf(p[2]) = <<Walked(Get(Get(p[1], s_spec), s_maxUnhealthy))>>
                ELSE TriggerOf(p[2]) = WalkedAll(TriggerOf(p[1]))

\* below the root, a target of 100% stayed 100% although maxUnhealthy was 40%
C12_Witness ==
    /\ calls = 1
    /\ ~raised
    /\ \E p \in Pairs(prev, doc) :
          /\ p[1] # prev
          /\ HasMaxUnhealthy(p[1])
          /\ Get(Get(p[1], s_spec), s_maxUnhealthy) = in_40pct
          /\ TriggerOf(p[1]) = <<in_100pct>>
          /\ TriggerOf(p[2]) = <<in_100pct>>
          /\ ~Has(Get(p[2], s_spec), s_maxUnhealthy)

(***************************************************************************)
(* C13.  MachineHealthCheck remediationTemplate merge: when                *)
(* spec.remediationTemplate is a Mapping, after transform                  *)
(* spec.remediation.templateRef holds, for each of kind, name and          *)
(* apiVersion present in the source and absent at the destination before   *)
(* the call, the source's value; every key already in templateRef keeps    *)
(* its value (and no other key is added); spec.remediationTemplate is      *)
(* removed; the other keys of spec.remediation, such as triggerIf, are     *)
(* still there, with their values where the maxUnhealthy move of the same  *)
(* call does not write; changed is true.                                   *)
(***************************************************************************)
\* MachineHealthCheck x has a Mapping spec whose remediationTemplate is a Mapping
HasTemplate(x) ==
    /\ IsMhc(x)
    /\ IsMap(Get(x, s_spec))
    /\ IsMap(Get(Get(x, s_spec), s_remediationTemplate))

\* spec.remediation of x when it is a Mapping, else the empty Mapping
RemediationOf(x) ==
    IF IsMap(Get(x, s_spec)) /\ IsMap(Get(Get(x, s_spec), s_remediation))
    THEN Get(Get(x, s_spec), s_remediation)
    ELSE EmptyMap

\* spec.remediation.templateRef of x when it is a Mapping, else the empty Mapping
TemplateRefOf(x) ==
    IF IsMap(Get(RemediationOf(x), s_templateRef))
    THEN Get(RemediationOf(x), s_templateRef)
    ELSE EmptyMap

MergedKeys == {s_kind, s_name, s_apiVersion}

\* templateRef after the call is templateRef before it, filled from templ
TemplateMerged(before, after, templ) ==
    /\ \A key \in MergedKeys :
          (Has(templ, key) /\ ~Has(before, key)) =>
              Has(after, key) /\ Get(after, key) = Walked(Get(templ, key))
    /\ \A key \in Keys(before) :
          Has(after, key) /\ Get(after, key) = Walked(Get(before, key))
    /\ Keys(after) \subseteq Keys(before) \cup (MergedKeys \cap Keys(templ))

\* the keys of remediation other than templateRef are kept
OthersPreserved(x, y) ==
    \A key \in Keys(RemediationOf(x)) \ {s_templateRef} :
        /\ Has(RemediationOf(y), key)
        /\ (key # s_triggerIf \/ ~Has(Get(x, s_spec), s_maxUnhealthy)) =>
              Get(RemediationOf(y), key) = Walked(Get(RemediationOf(x), key))

\* C13: the template is merged into spec.remediation.templateRef without
\* overwriting, the source key is gone, the rest of remediation is kept and
\* changed is true
C13_TemplateMerged ==
    Returned =>
        \A p \in Pairs(prev, doc) :
            HasTemplate(p[1]) =>
                /\ changed
                /\ IsMap(Get(p[2], s_spec))
                /\ ~Has(Get(p[2], s_spec), s_remediationTemplate)
                /\ IsMap(Get(Get(p[2], s_spec), s_remediation))
                /\ IsMap(Get(Get(Get(p[2], s_spec), s_remediation), s_templateRef))
                /\ TemplateMerged(TemplateRefOf(p[1]), TemplateRefOf(p[2]),
                                  Get(Get(p[1], s_spec), s_remediationTemplate))
                /\ OthersPreserved(p[1], p[2])

\* below the root, a templateRef {name, apiVersion: v1} next to a triggerIf
\* received kind from the template and kept its own apiVersion
C13_Witness ==
    /\ calls = 1
    /\ ~raised
    /\ changed
    /\ \E p \in Pairs(prev, doc) :
          /\ p[1] # prev
          /\ HasTemplate(p[1])
          /\ Get(Get(p[1], s_spec), s_remediationTemplate) = t_full
          /\ TemplateRefOf(p[1]) = MapV(<<KV(s_name, in_x), KV(s_apiVersion, in_v1)>>)
          /\ TemplateRefOf(p[2]) =
                MapV(<<KV(s_name, in_x), KV(s_apiVersion, in_v1),
                       KV(s_kind, in_HCloudMachineTemplate)>>)
          /\ Has(RemediationOf(p[2]), s_triggerIf)
          /\ ~Has(Get(p[2], s_spec), s_remediationTemplate)

(***************************************************************************)
(* C14.  KubeadmControlPlane relocation: for a mapping node with kind =    *)
(* KubeadmControlPlane, if spec.machineTemplate.infrastructureRef exists   *)
(* and spec.machineTemplate.spec.infrastructureRef does not, then after    *)
(* transform the reference is at spec.machineTemplate.spec.infrastructureRef *)
(* (the spec mapping in between being created if absent),                  *)
(* spec.machineTemplate has no infrastructureRef key and changed is true;  *)
(* if the destination exists, both entries stay where they are.  Nodes of  *)
(* any other kind are never relocated.  A reference is compared as the     *)
(* walk leaves a reference under the infrastructureRef key (reference-     *)
(* block normalization applies to it where it ends up).                    *)
(***************************************************************************)
\* spec.machineTemplate of x when both are Mappings, else the empty Mapping
MachineTemplateOf(x) ==
    IF IsMap(Get(x, s_spec)) /\ IsMap(Get(Get(x, s_spec), s_machineTemplate))
    THEN Get(Get(x, s_spec), s_machineTemplate)
    ELSE EmptyMap

\* spec.machineTemplate.spec of x when it is a Mapping, else the empty Mapping
TemplateSpecOf(x) ==
    IF IsMap(Get(MachineTemplateOf(x), s_spec))
    THEN Get(MachineTemplateOf(x), s_spec)
    ELSE EmptyMap

\* a reference as the walk leaves it under the infrastructureRef key
AsReference(r) ==
    Get(Walked(MapV(<<KV(s_infrastructureRef, r)>>)), s_infrastructureRef)

IsKcp(x) == IsMap(x) /\ Get(x, s_kind) = StrV(s_KubeadmControlPlane)

\* the reference of x is at the destination in y and no longer at the source
Relocated(x, y) ==
    /\ ~Has(MachineTemplateOf(y), s_infrastructureRef)
    /\ IsMap(Get(MachineTemplateOf(y), s_spec))
    /\ Has(TemplateSpecOf(y), s_infrastructureRef)
    /\ Get(TemplateSpecOf(y), s_infrastructureRef) =
          AsReference(Get(MachineTemplateOf(x), s_infrastructureRef))

\* every infrastructureRef of the template of x is in y where it was in x
StaysInPlace(x, y) ==
    /\ Has(MachineTemplateOf(y), s_infrastructureRef) =
          Has(MachineTemplateOf(x), s_infrastructureRef)
    /\ Get(MachineTemplateOf(y), s_infrastructureRef) =
          AsReference(Get(MachineTemplateOf(x), s_infrastructureRef))
    /\ Has(TemplateSpecOf(y), s_infrastructureRef) =
          Has(TemplateSpecOf(x), s_infrastructureRef)
    /\ Get(TemplateSpecOf(y), s_infrastructureRef) =
          AsReference(Get(TemplateSpecOf(x), s_infrastructureRef))

\* C14: a KubeadmControlPlane's reference moves exactly when the destination
\* does not exist, and then changed is true; no other node's reference moves
C14_Relocated ==
    Returned =>
        \A p \in Pairs(prev, doc) :
            IF /\ IsKcp(p[1])
               /\ Has(MachineTemplateOf(p[1]), s_infrastructureRef)
               /\ ~Has(TemplateSpecOf(p[1]), s_infrastructureRef)
            THEN changed /\ Relocated(p[1], p[2])
            ELSE StaysInPlace(p[1], p[2])

\* below the root, a reference moved into a machineTemplate that had no spec
C14_Witness ==
    /\ calls = 1
    /\ ~raised
    /\ changed
    /\ \E p \in Pairs(prev, doc) :
          /\ p[1] # prev
          /\ IsKcp(p[1])
          /\ Get(MachineTemplateOf(p[1]), s_infrastructureRef) = t_full
          /\ ~Has(MachineTemplateOf(p[1]), s_spec)
          /\ ~Has(MachineTemplateOf(p[2]), s_infrastructureRef)
          /\ Get(TemplateSpecOf(p[2]), s_infrastructureRef) =
                MapV(<<KV(s_kind, in_HCloudMachineTemplate), KV(s_name, in_x),
                       KV(s_apiGroup, StrV(g_infrastructure))>>)

(***************************************************************************)
(* C15.  Duration Parser: for every string, after trimming surrounding     *)
(* whitespace, if it is a non-negative decimal integer n followed by at    *)
(* most one unit letter among s, m, h, d in either case, the result is     *)
(* n * 1, n * 60, n * 3600 or n * 86400 respectively (n itself without a   *)
(* unit); for every other string (empty, negative, fractional, inner       *)
(* whitespace, unknown or repeated unit) the result is 'no result'.        *)
(***************************************************************************)
\* the positions of cs that hold no whitespace
Inked(cs) == {i \in 1..Len(cs) : cs[i] \notin Whitespace}

\* cs from its first to its last character that is no whitespace
Trimmed(cs) ==
    IF Inked(cs) = {} THEN <<>>
    ELSE LET first == CHOOSE i \in Inked(cs) : \A j \in Inked(cs) : i <= j
             last == CHOOSE i \in Inked(cs) : \A j \in Inked(cs) : j <= i
         IN  [i \in 1..(last - first + 1) |-> cs[first + i - 1]]

\* the seconds one unit stands for, 0 for a character that is no unit
SecondsPer(c) ==
    CASE c \in {"s", "S"} -> 1
      [] c \in {"m", "M"} -> 60
      [] c \in {"h", "H"} -> 3600
      [] c \in {"d", "D"} -> 86400
      [] OTHER -> 0

\* t ends with a unit letter
EndsWithUnit(t) == t # <<>> /\ SecondsPer(t[Len(t)]) # 0

\* the part of t that has to be the integer
NumberPart(t) == IF EndsWithUnit(t) THEN [i \in 1..(Len(t) - 1) |-> t[i]] ELSE t

IsNumber(ds) == ds # <<>> /\ \A i \in 1..Len(ds) : ds[i] \in Digits

RECURSIVE PowerOfTen(_)
PowerOfTen(k) == IF k = 0 THEN 1 ELSE 10 * PowerOfTen(k - 1)

\* the value of the decimal digits ds, from position i on
RECURSIVE DecimalValue(_, _)
DecimalValue(ds, i) ==
    IF i > Len(ds) THEN 0
    ELSE DigitVal(ds[i]) * PowerOfTen(Len(ds) - i) + DecimalValue(ds, i + 1)

\* the result the claim gives for the trimmed string t
ExpectedOfTrimmed(t) ==
    IF ~IsNumber(NumberPart(t)) THEN NoSeconds
    ELSE IF EndsWithUnit(t) THEN DecimalValue(NumberPart(t), 1) * SecondsPer(t[Len(t)])
    ELSE DecimalValue(t, 1)

\* C15: duration_to_seconds returns n times the unit's seconds for a trimmed
\* string of the form <integer><unit>, and no result for any other string
C15_DurationParser ==
    dpc = "ret" => dur_ret = ExpectedOfTrimmed(Trimmed(dur_arg))

\* " 7D", blank first and unit in upper case, gave 7 * 86400
C15_Witness ==
    /\ dpc = "ret"
    /\ dur_arg = <<" ", "7", "D">>
    /\ dur_ret = 604800

(***************************************************************************)
(* Vocabulary of the properties of a run of the script.                    *)
(***************************************************************************)
\* the positions at which the legacy identifier starts in text
LegacyStarts(text) ==
    {i \in 1..(Len(text) - Len(s_legacy) + 1) :
        \A k \in 1..Len(s_legacy) : text[i + k - 1] = s_legacy[k]}

\* transform returns true for some document of the file as it was
SomeDocChanges ==
    \E i \in 1..Len(disk0.docs) :
        ~transform(disk0.docs[i]).err /\ transform(disk0.docs[i]).c

\* transform raises on some document of the file as it was
SomeDocRaises == \E i \in 1..Len(disk0.docs) : transform(disk0.docs[i]).err

\* the run has ended by main returning
Completed == fpc = "exit" /\ exit_code = ExitOk

(***************************************************************************)
(* C16.  Write decision per file: process_file writes the file back if and *)
(* only if the raw-text substitution changed the text or transform         *)
(* returned true for at least one of the file's documents; the CLI prints  *)
(* 'Updated: <path>' exactly when the file was written and 'No changes     *)
(* needed: <path>' exactly when it was not, and exits 0 in both cases.     *)
(* When nothing changed the file is never opened for writing.              *)
(***************************************************************************)
\* the substitution changed the text, or some document's transform returned true
SomethingChanged == LegacyStarts(disk0.text) # {} \/ SomeDocChanges

\* C16: a run that completes has written the file once if something changed
\* and not at all otherwise, and has printed the matching line; a line is
\* printed only by a run that exits 0; without a change the file is never
\* opened for writing
C16_WriteDecision ==
    /\ Completed =>
          /\ opened = (IF SomethingChanged THEN 1 ELSE 0)
          /\ printed = <<IF opened = 1 THEN "Updated" ELSE "No changes needed">>
          /\ opened = 1 => disk = [text |-> updated_text, docs |-> docs, parses |-> TRUE]
          /\ opened = 0 => disk = disk0
    /\ printed # <<>> => Completed
    /\ ~SomethingChanged => opened = 0 /\ disk = disk0

\* a file without the legacy identifier whose second document alone changes
\* was written once and reported as updated
C16_Witness ==
    /\ Completed
    /\ LegacyStarts(disk0.text) = {}
    /\ disk0.docs = <<d_plain, d_args>>
    /\ opened = 1
    /\ printed = <<"Updated">>
    /\ disk.docs = <<d_plain, transform(d_args).n>>
    /\ disk.docs # disk0.docs

(***************************************************************************)
(* C17.  Global substitution: before parsing, every occurrence of the      *)
(* legacy identifier in the raw text, wherever it stands, is replaced by   *)
(* the successor identifier; the text handed to the parser holds no        *)
(* occurrence of the legacy identifier; and a file that held at least one  *)
(* occurrence is counted as changed and rewritten even when no document's  *)
(* transform returns true.                                                 *)
(***************************************************************************)
\* text with the characters of the occurrences that start at starts
\* overwritten by the successor identifier, character by character
SubstitutedAt(text, starts) ==
    [j \in 1..Len(text) |->
        IF \E i \in starts : i <= j /\ j < i + Len(s_legacy)
        THEN s_successor[j + 1 - (CHOOSE i \in starts : i <= j /\ j < i + Len(s_legacy))]
        ELSE text[j]]

\* text with every occurrence of the legacy identifier replaced
Substituted(text) == SubstitutedAt(text, LegacyStarts(text))

\* the run has read the text of the file
TextRead == fpc \in {"load", "loop", "report"} \/ (fpc = "exit" /\ is_file)

\* C17: from the moment the text is read, the text for the parser is the raw
\* text with every occurrence replaced and holds none; a file that held one
\* is counted as changed, and a run on it that completes has rewritten it
C17_GlobalSubstitution ==
    /\ TextRead =>
          /\ original_text = disk0.text
          /\ updated_text = Substituted(disk0.text)
          /\ LegacyStarts(updated_text) = {}
    /\ (fpc \in {"loop", "report"} /\ LegacyStarts(disk0.text) # {}) => any_changed
    /\ (Completed /\ LegacyStarts(disk0.text) # {}) =>
          /\ opened = 1
          /\ printed = <<"Updated">>
          /\ disk.text = updated_text
          /\ LegacyStarts(disk.text) = {}

\* a file whose only occurrence stood in a comment, with one document that
\* no rule touches, was rewritten with the successor identifier
C17_Witness ==
    /\ Completed
    /\ disk0.text = <<"#", " ">> \o s_legacy
    /\ disk0.docs = <<d_plain>>
    /\ ~SomeDocChanges
    /\ opened = 1
    /\ disk.text = <<"#", " ">> \o s_successor

(***************************************************************************)
(* C18.  Fatal errors abort the file without a partial write: if the path  *)
(* is not a file, parsing fails, or transform raises the unexpected-shape  *)
(* error on any document of the file, the run ends with a non-zero exit,   *)
(* no 'Updated' / 'No changes needed' line is printed, and the file on     *)
(* disk is identical to its content before the run, even when the          *)
(* substitution had changed the text or earlier documents of the file had  *)
(* already been transformed in memory.                                     *)
(***************************************************************************)
\* one of the three fatal conditions holds of the run
Fatal == ~is_file \/ ~disk0.parses \/ SomeDocRaises

\* C18: in a run with a fatal condition nothing is ever printed or written,
\* the run never reaches the report, and when it has ended its exit status
\* is not 0; no other run ends with a non-zero status
C18_NoPartialWrite ==
    /\ (fpc # "off" /\ Fatal) =>
          /\ printed = <<>>
          /\ opened = 0
          /\ disk = disk0
          /\ fpc # "report"
          /\ fpc = "exit" => exit_code # ExitOk
    /\ (fpc = "exit" /\ exit_code # ExitOk) => Fatal

\* transform raised on the second document after the substitution had
\* changed the text and the first document had been transformed in memory:
\* exit status 1, nothing printed, the file as it was
C18_Witness ==
    /\ fpc = "exit"
    /\ exit_code = ExitException
    /\ disk0.docs = <<d_args, d_bad>>
    /\ updated_text # original_text
    /\ docs[1] # disk0.docs[1]
    /\ printed = <<>>
    /\ disk = disk0

(***************************************************************************)
(* C19.  No-op preservation: for every document that contains, at no       *)
(* depth, a kubeletExtraArgs key, a reference-block key, a                 *)
(* controlPlaneEndpoint key, or a kind equal to MachineHealthCheck or      *)
(* KubeadmControlPlane, transform returns changed = false and the tree     *)
(* after the call is identical to the tree before it.                      *)
(***************************************************************************)
\* the keys the claim lists
ListedTriggerKeys == {s_kubeletExtraArgs, s_controlPlaneEndpoint} \cup RefKeyNames

\* the kinds the claim lists
TriggerKinds == {StrV(s_MachineHealthCheck), StrV(s_KubeadmControlPlane)}

\* no mapping node of tree x has one of the keys or one of the kinds
FreeOf(x, keys) ==
    \A m \in MapsOf(x) :
        /\ Keys(m) \cap keys = {}
        /\ ~(Has(m, s_kind) /\ Get(m, s_kind) \in TriggerKinds)

\* C19 as written: violated, the list of keys leaves out extraArgs
C19_NoOpAsWritten ==
    (calls >= 1 /\ FreeOf(prev, ListedTriggerKeys)) =>
        (~raised /\ ~changed /\ doc = prev)

\* C19, amended: a document that has, at no depth, one of the listed keys,
\* an extraArgs key or one of the two kinds is returned as it was, with
\* changed = false and without an error
C19_NoOp ==
    (calls >= 1 /\ FreeOf(prev, ListedTriggerKeys \cup {s_extraArgs})) =>
        (~raised /\ ~changed /\ doc = prev)

\* a Pod with metadata and a spec holding a sequence, one level down in a
\* sequence, came back as it was
C19_Witness ==
    /\ calls >= 1
    /\ IsSeq(prev)
    /\ Len(prev.e) = 2
    /\ IsMap(prev.e[2])
    /\ Get(prev.e[2], s_kind) = in_Pod
    /\ IsMap(Get(prev.e[2], s_spec))
    /\ FreeOf(prev, ListedTriggerKeys \cup {s_extraArgs})
    /\ ~raised
    /\ ~changed
    /\ doc = prev

(***************************************************************************)
(* C20.  Engine aggregation: transform on a Scalar (or null) mutates       *)
(* nothing and returns false; on a Sequence it calls transform on every    *)
(* element in order and returns the OR of their results; on a Mapping it   *)
(* applies the rules to the node first and then calls transform on every   *)
(* value of the node as it stands after the rules, returning true exactly  *)
(* when some rule fired on the node or some value's transform returned     *)
(* true.  A change made arbitrarily deep in the tree therefore always      *)
(* makes the root call return true.                                        *)
(* Stated as written; the code violates its last sentence.                 *)
(***************************************************************************)
\* a Scalar or null comes back as it was, with false
ScalarUntouched == (doc = prev /\ ~changed)

\* every element is the result of its own call, the flag is their OR
SequenceAggregates ==
    /\ IsSeq(doc)
    /\ Len(doc.e) = Len(prev.e)
    /\ \A i \in 1..Len(prev.e) :
          /\ ~transform(prev.e[i]).err
          /\ doc.e[i] = transform(prev.e[i]).n
    /\ changed <=> \E i \in 1..Len(prev.e) : transform(prev.e[i]).c

\* every value of the node the rules left is the result of its own call,
\* the flag is true exactly when a rule fired or a value's call returned true
MappingAggregates(ruled) ==
    /\ ~ruled.err
    /\ IsMap(doc)
    /\ Len(doc.e) = Len(ruled.n.e)
    /\ \A i \in 1..Len(ruled.n.e) :
          /\ doc.e[i].k = ruled.n.e[i].k
          /\ ~transform(ruled.n.e[i].v).err
          /\ doc.e[i].v = transform(ruled.n.e[i].v).n
    /\ changed <=> (ruled.c \/ \E i \in 1..Len(ruled.n.e) : transform(ruled.n.e[i].v).c)

\* the three cases of the engine
Aggregates ==
    Returned =>
        IF IsMap(prev) THEN MappingAggregates(apply_rules(prev))
        ELSE IF IsSeq(prev) THEN SequenceAggregates
        ELSE ScalarUntouched

\* C20: the three cases, and a tree that differs after the call makes the
\* call return true
C20_Aggregation ==
    /\ Aggregates
    /\ Returned => (doc # prev => changed)

(***************************************************************************)
(* C21.  Rules run before descent, so one pass completes the migration of  *)
(* relocated and newly created nodes: in a single transform call on a      *)
(* KubeadmControlPlane whose spec.machineTemplate.infrastructureRef        *)
(* carries an apiVersion, the reference ends at                            *)
(* spec.machineTemplate.spec.infrastructureRef already normalized          *)
(* (apiVersion removed, apiGroup set when inferable); likewise values      *)
(* moved under spec.checks / spec.remediation of a MachineHealthCheck and  *)
(* entries created by mapping-to-list conversion are visited by the same   *)
(* walk.  After a successful transform no Mapping value under              *)
(* infrastructureRef, controlPlaneRef or configRef anywhere in the tree    *)
(* has an apiVersion key.                                                  *)
(* Stated as written, for the references that are relocated (C14: the      *)
(* destination key does not exist); the code violates it when the inferred *)
(* group is the empty text before a leading '/' (the case behind C6).      *)
(***************************************************************************)
\* the reference of KubeadmControlPlane x is a Mapping with an apiVersion
\* and the relocation applies to it
RelocatesVersioned(x) ==
    /\ IsKcp(x)
    /\ IsMap(Get(MachineTemplateOf(x), s_infrastructureRef))
    /\ Has(Get(MachineTemplateOf(x), s_infrastructureRef), s_apiVersion)
    /\ ~Has(TemplateSpecOf(x), s_infrastructureRef)

\* reference R is, in y, at the destination only, without apiVersion and
\* with the group inference returns on R when R had no apiGroup
RelocatedNormalized(R, y) ==
    /\ ~Has(MachineTemplateOf(y), s_infrastructureRef)
    /\ IsMap(Get(TemplateSpecOf(y), s_infrastructureRef))
    /\ ~Has(Get(TemplateSpecOf(y), s_infrastructureRef), s_apiVersion)
    /\ (~Has(R, s_apiGroup) /\ infer_api_group(R).ok) =>
          /\ Has(Get(TemplateSpecOf(y), s_infrastructureRef), s_apiGroup)
          /\ Get(Get(TemplateSpecOf(y), s_infrastructureRef), s_apiGroup) =
                StrV(infer_api_group(R).g)
    /\ \A key \in Keys(R) \ {s_apiVersion, s_apiGroup} :
          Get(Get(TemplateSpecOf(y), s_infrastructureRef), key) = Walked(Get(R, key))

\* the values the MachineHealthCheck moves of x stored are in y as the walk
\* leaves them
MovedVisited(x, y, spec) ==
    /\ (Has(spec, s_nodeStartupTimeout) /\ ~IsStr(Get(spec, s_nodeStartupTimeout))) =>
          Get(Get(Get(y, s_spec), s_checks), s_nodeStartupTimeoutSeconds) =
              Walked(Get(spec, s_nodeStartupTimeout))
    /\ (HasConditionList(x) /\ ExpectedConditions(Get(spec, s_unhealthyConditions))
                                  # SeqV(<<>>)) =>
          NodeConditionsOf(y) = <<Walked(ExpectedConditions(Get(spec, s_unhealthyConditions)))>>
    /\ (Has(spec, s_maxUnhealthy) /\ TriggerOf(x) = <<>>) =>
          TriggerOf(y) = <<Walked(Get(spec, s_maxUnhealthy))>>
    /\ HasTemplate(x) =>
          \A key \in MergedKeys :
              (Has(Get(spec, s_remediationTemplate), key) /\ ~Has(TemplateRefOf(x), key)) =>
                  Get(TemplateRefOf(y), key) = Walked(Get(Get(spec, s_remediationTemplate), key))

\* the list the conversion made of an argument Mapping of x is in y with
\* every value as the walk leaves it
CreatedVisited(x, y) ==
    \A key \in ArgKeyNames :
        IsMap(Get(x, key)) => Get(y, key) = NameValueList(Get(x, key))

\* no reference block of the tree has an apiVersion key
NoVersionedReference(tree) ==
    \A m \in MapsOf(tree) : \A key \in RefKeyNames :
        IsMap(Get(m, key)) => ~Has(Get(m, key), s_apiVersion)

\* the walk reaches what the rules moved and created
WalkReachesMoved ==
    Returned =>
        /\ \A p \in Pairs(prev, doc) :
              /\ (IsMhc(p[1]) /\ IsMap(Get(p[1], s_spec))) =>
                    MovedVisited(p[1], p[2], Get(p[1], s_spec))
              /\ CreatedVisited(p[1], p[2])
        /\ NoVersionedReference(doc)

\* C21: a relocated reference is normalized at its destination, moved values
\* and created entries are as the walk leaves them, and no reference block
\* keeps an apiVersion
C21_OnePass ==
    /\ WalkReachesMoved
    /\ Returned =>
          \A p \in Pairs(prev, doc) :
              RelocatesVersioned(p[1]) =>
                  RelocatedNormalized(Get(MachineTemplateOf(p[1]), s_infrastructureRef), p[2])

(***************************************************************************)
(* C22.  Frame of the rule set: transform never adds, removes, reorders or *)
(* changes any mapping entry other than these: kubeletExtraArgs, extraArgs *)
(* and controlPlaneEndpoint of any mapping; apiGroup and apiVersion inside *)
(* a reference block; nodeStartupTimeout, unhealthyConditions,             *)
(* maxUnhealthy, remediationTemplate, checks (nodeStartupTimeoutSeconds,   *)
(* unhealthyNodeConditions) and remediation                                *)
(* (triggerIf.unhealthyLessThanOrEqualTo, templateRef) inside a            *)
(* MachineHealthCheck's spec; infrastructureRef and spec inside a          *)
(* KubeadmControlPlane's spec.machineTemplate.  Every other key keeps its  *)
(* value and its position relative to the other surviving keys, and        *)
(* sequences keep their length and element order.                          *)
(***************************************************************************)
\* what a mapping node is, by the place it has in the tree
t_ref == "reference block"

t_mhc_spec == "MachineHealthCheck spec"

t_checks == "checks"

t_remediation == "remediation"

t_trigger == "triggerIf"

t_kcp_spec == "KubeadmControlPlane spec"

t_template == "machineTemplate"

t_template_spec == "machineTemplate spec"

\* what the value under key of node x is, x being what tags says
ChildTags(x, key, tags) ==
    {t \in {t_ref, t_mhc_spec, t_checks, t_remediation, t_trigger, t_kcp_spec,
            t_template, t_template_spec} :
        \/ t = t_ref /\ key \in RefKeyNames
        \/ t = t_mhc_spec /\ key = s_spec /\ IsMhc(x)
        \/ t = t_checks /\ key = s_checks /\ t_mhc_spec \in tags
        \/ t = t_remediation /\ key = s_remediation /\ t_mhc_spec \in tags
        \/ t = t_trigger /\ key = s_triggerIf /\ t_remediation \in tags
        \/ t = t_kcp_spec /\ key = s_spec /\ IsKcp(x)
        \/ t = t_template /\ key = s_machineTemplate /\ t_kcp_spec \in tags
        \/ t = t_template_spec /\ key = s_spec /\ t_template \in tags}

\* the entries the claim lets the rules add, remove or change in such a node
FreeKeys(tags) ==
    ArgKeyNames \cup {s_controlPlaneEndpoint}
    \cup (IF t_ref \in tags THEN {s_apiGroup, s_apiVersion} ELSE {})
    \cup (IF t_mhc_spec \in tags
          THEN {s_nodeStartupTimeout, s_unhealthyConditions, s_maxUnhealthy,
                s_remediationTemplate}
          ELSE {})
    \cup (IF t_checks \in tags
          THEN {s_nodeStartupTimeoutSeconds, s_unhealthyNodeConditions} ELSE {})
    \cup (IF t_remediation \in tags THEN {s_templateRef} ELSE {})
    \cup (IF t_trigger \in tags THEN {s_unhealthyLessThanOrEqualTo} ELSE {})
    \cup (IF t_template \in tags \/ t_template_spec \in tags
          THEN {s_infrastructureRef} ELSE {})

\* the entries the rules may create, or replace when they hold no Mapping,
\* to store a listed entry in them; a Mapping they hold stays, with its frame
HolderKeys(tags) ==
    (IF t_mhc_spec \in tags THEN {s_checks, s_remediation} ELSE {})
    \cup (IF t_remediation \in tags THEN {s_triggerIf} ELSE {})
    \cup (IF t_template \in tags THEN {s_spec} ELSE {})

\* the keys of m outside listed, in their order
KeysOutside(m, listed) ==
    LET kept == SelectSeq(m.e, LAMBDA entry : entry.k \notin listed)
    IN  [i \in 1..Len(kept) |-> kept[i].k]

\* tree y is tree x but for the listed entries: the other keys are the same,
\* in the same order, with values that are in turn framed; sequences have
\* the same length and framed elements; scalars are equal
RECURSIVE Framed(_, _, _)
Framed(x, y, tags) ==
    IF IsMap(x)
    THEN /\ IsMap(y)
         /\ KeysOutside(x, FreeKeys(tags) \cup HolderKeys(tags)) =
               KeysOutside(y, FreeKeys(tags) \cup HolderKeys(tags))
         /\ \A i \in 1..Len(x.e) :
               \/ x.e[i].k \in FreeKeys(tags)
               \/ /\ x.e[i].k \in HolderKeys(tags)
                  /\ ~IsMap(x.e[i].v)
               \/ /\ Has(y, x.e[i].k)
                  /\ Framed(x.e[i].v, Get(y, x.e[i].k), ChildTags(x, x.e[i].k, tags))
    ELSE IF IsSeq(x)
    THEN /\ IsSeq(y)
         /\ Len(y.e) = Len(x.e)
         /\ \A i \in 1..Len(x.e) : Framed(x.e[i], y.e[i], {})
    ELSE y = x

\* C22: after a call, also one that raised, the tree is the tree before the
\* call but for the listed entries
C22_Frame == calls >= 1 => Framed(prev, doc, {})

\* below the root, a MachineHealthCheck with maxUnhealthy and a template:
\* triggerIf kept its own key before the new one, templateRef was filled,
\* and the tree is framed
C22_Witness ==
    /\ calls = 1
    /\ ~raised
    /\ doc # prev
    /\ Framed(prev, doc, {})
    /\ \E p \in Pairs(prev, doc) :
          /\ p[1] # prev
          /\ IsMhc(p[1])
          /\ Get(Get(p[1], s_spec), s_maxUnhealthy) = in_40pct
          /\ HasTemplate(p[1])
          /\ Get(RemediationOf(p[1]), s_triggerIf) = MapV(<<KV(in_a, in_x)>>)
          /\ Get(RemediationOf(p[2]), s_triggerIf) =
                MapV(<<KV(in_a, in_x), KV(s_unhealthyLessThanOrEqualTo, in_40pct)>>)
          /\ Keys(Get(p[2], s_spec)) = {s_remediation}

=============================================================================
